---- MODULE Spec2Model ----
(***************************************************************************)
(* Model of the flash_snowglobes numerical pipeline:                       *)
(*   flash2snowglobes/convert.py   interpolation, time binning, fluences   *)
(*   flash2snowglobes/analysis.py  channel aggregation, time tables        *)
(*   write_fluxes.py               flux files of the detector simulator    *)
(*   snowglobes/snow_tools.py      table loading, time integration         *)
(*   snowglobes/snowglobes.py      SnowGlobesData                          *)
(*   snowglobes.py                 SnowGlobesData.load_mass_tables         *)
(*                                                                         *)
(* Numbers are exact extended rationals <<n, d>> (d > 0 in lowest terms,   *)
(* or d = 0 for the non-finite values numpy produces on a division by      *)
(* zero: <<0,0>> is nan, <<1,0>> is inf, <<-1,0>> is -inf).  Rounding of   *)
(* IEEE doubles is not modelled.  Arrays are sequences; Python's 0-based   *)
(* and negative indices are translated by PyIndex and PySlice.             *)
(***************************************************************************)
EXTENDS Integers, Sequences, FiniteSets, TLC

VARIABLES
    stage,       \* which operation of the pipeline the behaviour exercises
    pc,          \* position of that operation: "ready", "loop", "done", "error"
    time,        \* raw simulation timesteps                     [timesteps]
    lum,         \* luminosities                                 [timesteps, flavors]
    avg,         \* average energies                             [timesteps, flavors]
    rms,         \* rms energies                                 [timesteps, flavors]
    t,           \* query points of the last interpolate_time call
    y_name,      \* the variable ("lum", "avg", "rms") it was called on
    y_out,       \* result of the last interpolate_time call
    bin_edges,   \* [t_left, t_right] of the last slice_timebin call
    sliced,      \* result of the last slice_timebin call
    timebins,    \* left edges of the output time bins          [timebins]
    e_bins,      \* neutrino energy bins                        [e_bins]
    i_bin,       \* loop index i of get_fluences
    fluences,    \* {flav: [timebins, e_bins]} being filled by get_fluences
    file_energies,  \* first column of a detector-output file    [n_bins]
    channel_counts, \* {channel: [n_bins]} of one snapshot
    groups,         \* channel_groups: (group, [channels]) in dict order
    energy_bins,    \* energy bins in MeV                        [n_bins]
    group_counts,   \* {group: [n_bins]}, with 'Total'
    group_totals,   \* {group: total counts}
    group_avg,      \* {group: mean energy}
    mass_tables,    \* xr.Dataset {column: [mass, Time]} of time_integrate
    channels,       \* the caller's list of channel names
    n_window,       \* n_bins of the last time_integrate call
    summary,        \* result of the last time_integrate call
    max_n_bins,     \* argument of get_cumulative
    cumulative,     \* {b: table} being filled by get_cumulative, in insertion order
    x_cumulative,   \* result of get_cumulative
    fluxes,         \* {flavor: [timebins, e_bins]} given to write_fluxes
    key_table,      \* rows (i, time[s], dt[s]) of the key file
    flux_files,     \* {file number: flux table} written by write_fluxes
    i_file,         \* loop index i of write_fluxes
    environ,        \* os.environ: the value of ECRATE, or "unset"
    files_read,     \* paths handed to pd.read_csv so far
    call,           \* the table-loading operation called last
    outcome,        \* how that call ended
    sg,             \* fields of the SnowGlobesData object
    missing,        \* detector-output files (mass, timestep, channel) that are absent
    out_tables,     \* {mass: time table file} in the output directory
    mass,           \* the mass analyze_output runs on
    i_time,         \* loop index i of analyze_output
    time_totals,    \* {group: [n_time]} of analyze_output
    time_avg,       \* {group: [n_time]} of analyze_output
    model_sets,     \* SnowGlobesData.model_sets of snowglobes.py
    alphas,         \* SnowGlobesData.alphas of snowglobes.py
    heap,           \* dict objects: identity -> {mass: table}
    tables,         \* load_mass_tables' local {model_set: dict identity}
    ld_i,           \* loop index i of load_mass_tables
    ld_j,           \* loop index j of load_mass_tables
    a_avg,          \* avg given to get_alpha
    a_rms,          \* rms given to get_alpha
    a_alpha         \* result of get_alpha

rawVars == <<time, lum, avg, rms>>
interpVars == <<t, y_name, y_out>>
sliceVars == <<bin_edges, sliced>>
fluenceVars == <<timebins, e_bins, i_bin, fluences>>
analysisVars == <<file_energies, channel_counts, groups, energy_bins,
                  group_counts, group_totals, group_avg>>

summaryVars == <<mass_tables, channels, n_window, summary, max_n_bins, cumulative,
                 x_cumulative>>
writerVars == <<fluxes, key_table, flux_files, i_file>>
loaderVars == <<environ, files_read, call, outcome, sg>>
outputVars == <<missing, out_tables, mass, i_time, time_totals, time_avg>>
dictVars == <<model_sets, alphas, heap, tables, ld_i, ld_j>>
alphaVars == <<a_avg, a_rms, a_alpha>>

convertVars == <<rawVars, interpVars, sliceVars, fluenceVars>>
extVars == <<summaryVars, writerVars, loaderVars, outputVars, dictVars, alphaVars>>

vars == <<stage, pc, convertVars, analysisVars, extVars>>

----------------------------------------------------------------------------
(* Bounds of the model *)

MaxTime == 3
MaxLen == 4
MaxBins == 2
MaxCount == 1

----------------------------------------------------------------------------
(* Extended rational arithmetic (numpy float semantics without rounding) *)

Abs(x) == IF x < 0 THEN -x ELSE x

Sgn(x) == IF x < 0 THEN -1 ELSE IF x > 0 THEN 1 ELSE 0

RECURSIVE GCD(_, _)
GCD(a, b) == IF b = 0 THEN a ELSE GCD(b, a % b)

Rat(n, d) ==
    IF d = 0 THEN <<Sgn(n), 0>>
    ELSE LET g == GCD(Abs(n), Abs(d))
             s == IF d < 0 THEN -1 ELSE 1
         IN  <<(s * n) \div g, (s * d) \div g>>

R(n) == <<n, 1>>

NaN == <<0, 0>>

IsFinite(x) == x[2] # 0

IsNaN(x) == x = NaN

RNeg(x) == <<-x[1], x[2]>>

RAdd(x, y) ==
    IF IsFinite(x) /\ IsFinite(y) THEN Rat(x[1] * y[2] + y[1] * x[2], x[2] * y[2])
    ELSE IF IsNaN(x) \/ IsNaN(y) THEN NaN
    ELSE IF IsFinite(x) THEN y
    ELSE IF IsFinite(y) THEN x
    ELSE IF x = y THEN x ELSE NaN

RSub(x, y) == RAdd(x, RNeg(y))

RMul(x, y) ==
    IF IsFinite(x) /\ IsFinite(y) THEN Rat(x[1] * y[1], x[2] * y[2])
    ELSE IF IsNaN(x) \/ IsNaN(y) THEN NaN
    ELSE <<Sgn(x[1]) * Sgn(y[1]), 0>>

RDiv(x, y) ==
    IF IsNaN(x) \/ IsNaN(y) THEN NaN
    ELSE IF IsFinite(x) /\ IsFinite(y) THEN Rat(x[1] * y[2], x[2] * y[1])
    ELSE IF IsFinite(y) THEN <<x[1] * (IF y[1] < 0 THEN -1 ELSE 1), 0>>
    ELSE IF IsFinite(x) THEN R(0)
    ELSE NaN

\* x <= y as numpy compares: every comparison with nan is False
RLe(x, y) ==
    IF IsNaN(x) \/ IsNaN(y) THEN FALSE
    ELSE IF IsFinite(x) /\ IsFinite(y) THEN x[1] * y[2] <= y[1] * x[2]
    ELSE IF IsFinite(x) THEN y[1] > 0
    ELSE IF IsFinite(y) THEN x[1] < 0
    ELSE x[1] <= y[1]

RLt(x, y) == RLe(x, y) /\ x # y

----------------------------------------------------------------------------
(* Python / numpy indexing *)

\* outcome of an operation: a value, or the exception that ended it
Ok(v) == [ok |-> TRUE, val |-> v, err |-> "none"]

Raise(e) == [ok |-> FALSE, val |-> <<>>, err |-> e]

\* a[i] for a 0-based, possibly negative index i
InRange(a, i) == -Len(a) <= i /\ i < Len(a)

PyIndex(a, i) == IF i < 0 THEN a[i + Len(a) + 1] ELSE a[i + 1]

\* a[start:stop] with Python's clipping of negative and oversized bounds
PyClip(n, i) == IF i < 0 THEN (IF i + n < 0 THEN 0 ELSE i + n)
                ELSE IF i > n THEN n ELSE i

PySlice(a, start, stop) ==
    LET lo == PyClip(Len(a), start)
        hi == PyClip(Len(a), stop)
    IN  IF hi <= lo THEN <<>> ELSE [k \in 1..(hi - lo) |-> a[lo + k]]

\* np.searchsorted(a, v), side='left': the number of entries < v
searchsorted(a, v) == Cardinality({k \in 1..Len(a) : a[k] < v})

----------------------------------------------------------------------------
(* flash2snowglobes/convert.py *)

flavors == <<"e", "a", "x">>

NFlav == Len(flavors)

\* one query point: rows y_var[i_left], y_var[i_right] combined columnwise
InterpolatePoint(tq, tm, y_var) ==
    LET i_right == searchsorted(tm, tq)
        i_left == i_right - 1
        y0 == PyIndex(y_var, i_left)
        y1 == PyIndex(y_var, i_right)
        t0 == PyIndex(tm, i_left)
        t1 == PyIndex(tm, i_right)
    IN  [f \in 1..Len(y0) |->
            RDiv(RAdd(RMul(R(y0[f]), R(t1 - tq)), RMul(R(y1[f]), R(tq - t0))),
                 R(t1 - t0))]

\* interpolate_time(t, time, y_var) for an array t of query points
interpolate_time(tq, tm, y_var) ==
    IF \E k \in 1..Len(tq) :
          LET i_right == searchsorted(tm, tq[k])
          IN  ~InRange(y_var, i_right - 1) \/ ~InRange(y_var, i_right)
    THEN Raise("IndexError")
    ELSE Ok([k \in 1..Len(tq) |-> InterpolatePoint(tq[k], tm, y_var)])

\* t_sliced[[0, -1]] = bin_edges: entry 0 is written first, entry -1 last
SetEnds(a, ends) ==
    [k \in 1..Len(a) |-> IF k = Len(a) THEN ends[2]
                         ELSE IF k = 1 THEN ends[1] ELSE a[k]]

\* one variable of slice_timebin's loop: the raw slice with its end entries
\* replaced by the interpolated values at the bin edges
SliceVar(edges, tm, values) ==
    LET i_left == searchsorted(tm, edges[1])
        i_right == searchsorted(tm, edges[2])
        raw == PySlice(values, i_left - 1, i_right + 1)
        y_raw == [k \in 1..Len(raw) |-> [f \in 1..Len(raw[k]) |-> R(raw[k][f])]]
        y_edges == interpolate_time(edges, tm, values)
    IN  IF ~y_edges.ok THEN y_edges
        ELSE Ok(SetEnds(y_raw, y_edges.val))

\* slice_timebin(bin_edges, time, y_vars), y_vars = {'lum', 'avg', 'rms'}
slice_timebin(edges, tm, y_vars) ==
    LET i_left == searchsorted(tm, edges[1])
        i_right == searchsorted(tm, edges[2])
        t_raw == PySlice(tm, i_left - 1, i_right + 1)
        s_lum == SliceVar(edges, tm, y_vars.lum)
        s_avg == SliceVar(edges, tm, y_vars.avg)
        s_rms == SliceVar(edges, tm, y_vars.rms)
    IN  IF Len(t_raw) = 0 THEN Raise("IndexError")
        ELSE IF ~s_lum.ok THEN s_lum
        ELSE Ok([t |-> SetEnds(t_raw, edges),
                 y |-> [lum |-> s_lum.val, avg |-> s_avg.val, rms |-> s_rms.val]])

\* np.array(a[start:stop]): a new array holding a copy of the slice (base
\* "new"); a bare a[start:stop] would be a view sharing a's memory ("arg")
np_array(a, start, stop) == [base |-> "new", off |-> 0, data |-> PySlice(a, start, stop)]

\* the contents of array a after obj's entries were set to data: a changes
\* only if obj shares its memory
WriteBack(a, obj, data) ==
    IF obj.base = "arg"
    THEN [k \in 1..Len(a) |-> IF k > obj.off /\ k <= obj.off + Len(data)
                              THEN data[k - obj.off] ELSE a[k]]
    ELSE a

\* lines 83-87 for one variable: the contents of the caller's array `values`
\* after the iteration (tm is the time array as the iteration finds it)
SliceVarMemory(edges, tm, values) ==
    LET i_left == searchsorted(tm, edges[1])
        i_right == searchsorted(tm, edges[2])
        y_sliced == np_array(values, i_left - 1, i_right + 1)
        y_edges == interpolate_time(edges, tm, values)
    IN  IF ~y_edges.ok \/ Len(y_sliced.data) = 0 THEN values
        ELSE WriteBack(values, y_sliced, SetEnds(y_sliced.data, y_edges.val))

\* one call of slice_timebin: what it returns (ret) and the contents of the
\* caller's time and y_vars arrays when it returns or raises
slice_timebin_call(edges, tm, y_vars) ==
    LET i_left == searchsorted(tm, edges[1])
        i_right == searchsorted(tm, edges[2])
        t_sliced == np_array(tm, i_left - 1, i_right + 1)
        tm_after == IF Len(t_sliced.data) = 0 THEN tm
                    ELSE WriteBack(tm, t_sliced, SetEnds(t_sliced.data, edges))
    IN  [ret |-> slice_timebin(edges, tm, y_vars),
         time |-> tm_after,
         y_vars |-> IF Len(t_sliced.data) = 0 THEN y_vars
                    ELSE [lum |-> SliceVarMemory(edges, tm_after, y_vars.lum),
                          avg |-> SliceVarMemory(edges, tm_after, y_vars.avg),
                          rms |-> SliceVarMemory(edges, tm_after, y_vars.rms)]]

\* the pinch parameter without the factor 2.0 of the numerator
get_alpha_unit(a, r) ==
    RDiv(RSub(RMul(r, r), RMul(a, a)), RSub(RMul(a, a), RMul(r, r)))

\* the pinch parameter with the opposite sign convention in the numerator
get_alpha_flipped(a, r) ==
    RDiv(RSub(RMul(R(2), RMul(a, a)), RMul(r, r)), RSub(RMul(a, a), RMul(r, r)))

\* get_alpha(avg, rms)
get_alpha(a, r) ==
    RDiv(RSub(RMul(r, r), RMul(R(2), RMul(a, a))), RSub(RMul(a, a), RMul(r, r)))

\* get_phi(e_bin, avg, alpha): the Gamma function, the real powers and the
\* exponential have no rational value, so phi is kept as the application of
\* an uninterpreted function to its three arguments
get_phi(e_bin, a, alpha) == [e_bin |-> e_bin, avg |-> a, alpha |-> alpha]

\* one entry of flux_spectrum, lum_to_flux * (lum / avg) * phi * e_binsize:
\* the rational factor c and the symbolic factor phi (which carries the
\* constant lum_to_flux = 1 / (4 pi dist^2), positive for every dist # 0)
FluxEntry(l, a, r, e_bin, e_binsize) ==
    [c |-> RMul(RDiv(l, a), R(e_binsize)), phi |-> get_phi(e_bin, a, get_alpha(a, r))]

\* get_flux_spectrum(e_bins, lum, avg, rms, dist) : [timesteps, flavors, e_bins]
get_flux_spectrum(eb, l, a, r) ==
    IF Len(eb) < 2 THEN Raise("IndexError")
    ELSE LET e_binsize == eb[2] - eb[1]
         IN  Ok([k \in 1..Len(l) |-> [f \in 1..Len(l[k]) |-> [e \in 1..Len(eb) |->
                    FluxEntry(l[k][f], a[k][f], r[k][f], eb[e], e_binsize)]]])

\* a rectangle rule in place of the trapezoidal rule
trapz_rectangle(y, x, f, e) ==
    [k \in 1..(Len(x) - 1) |->
        [c |-> RMul(R(x[k + 1] - x[k]), y[k][f][e].c), phi |-> y[k][f][e].phi]]

\* trapz over axis 0 of one [flavor, e_bin] column, sum(d * (y[1:] + y[:-1]) / 2):
\* the sum over the symbolic factors is kept as the sequence of its terms
trapz_terms(y, x, f, e) ==
    [j \in 1..(2 * (Len(x) - 1)) |->
        LET k == (j + 1) \div 2
            d == x[k + 1] - x[k]
            s == IF j % 2 = 1 THEN y[k + 1][f][e] ELSE y[k][f][e]
        IN  [c |-> RDiv(RMul(R(d), s.c), R(2)), phi |-> s.phi]]

\* trapz(flux_spectrum, x=t_sliced, axis=0) : [flavors, e_bins]
trapz(y, x) ==
    [f \in 1..Len(y[1]) |-> [e \in 1..Len(y[1][f]) |-> trapz_terms(y, x, f, e)]]

\* full_timebins = np.append(timebins, timebins[-1] + dt), dt = np.diff(timebins)[0]
full_timebins(tb) == Append(tb, tb[Len(tb)] + (tb[2] - tb[1]))

\* np.zeros([n_timebins, n_ebins]); the empty sum of terms is 0
zeros(n, m) == [r \in 1..n |-> [e \in 1..m |-> <<>>]]

\* the body of get_fluences' loop for bin index b (0-based): the fluence
\* [flavors, e_bins] of the bin, or the exception raised on the way
bin_fluence(b, tm, y_vars, tb, eb) ==
    LET edges == <<full_timebins(tb)[b + 1], full_timebins(tb)[b + 2]>>
        sl == slice_timebin(edges, tm, y_vars)
        fx == get_flux_spectrum(eb, sl.val.y.lum, sl.val.y.avg, sl.val.y.rms)
    IN  IF ~sl.ok THEN sl
        ELSE IF ~fx.ok THEN fx
        ELSE Ok(trapz(fx.val, sl.val.t))

----------------------------------------------------------------------------
(* flash2snowglobes/analysis.py *)

RECURSIVE Sum(_)
Sum(a) == IF a = <<>> THEN 0 ELSE Head(a) + Sum(Tail(a))

AddArrays(a, b) == [e \in 1..Len(a) |-> a[e] + b[e]]

np_zeros(n) == [e \in 1..n |-> 0]

\* get_all_channels(groups): the channel lists of all groups, concatenated
RECURSIVE get_all_channels(_)
get_all_channels(gs) ==
    IF gs = <<>> THEN <<>> ELSE Head(gs)[2] \o get_all_channels(Tail(gs))

\* load_energy_bins: the file's first column rescaled to MeV
load_energy_bins(column) == [e \in 1..Len(column) |-> column[e] * 1000]

\* the inner loop of get_group_counts: counts += channel_counts[chan]
RECURSIVE SumChannels(_, _, _)
SumChannels(chans, cc, n_bins) ==
    IF chans = <<>> THEN np_zeros(n_bins)
    ELSE AddArrays(SumChannels(SubSeq(chans, 1, Len(chans) - 1), cc, n_bins),
                   cc[chans[Len(chans)]])

\* the outer loop of get_group_counts: group_counts['Total'] += counts
RECURSIVE SumGroups(_, _, _)
SumGroups(gs, cc, n_bins) ==
    IF gs = <<>> THEN np_zeros(n_bins)
    ELSE AddArrays(SumGroups(SubSeq(gs, 1, Len(gs) - 1), cc, n_bins),
                   SumChannels(gs[Len(gs)][2], cc, n_bins))

GroupNames(gs) == {gs[k][1] : k \in 1..Len(gs)}

ChannelsOf(gs) == {get_all_channels(gs)[k] : k \in 1..Len(get_all_channels(gs))}

GroupIndex(gs, name) == CHOOSE k \in 1..Len(gs) : gs[k][1] = name

\* 'Total' summed over the distinct channels instead of over the groups
get_group_counts_union(cc, gs, n_bins) ==
    [g \in {"Total"} \cup GroupNames(gs) |->
        IF g = "Total"
        THEN [e \in 1..n_bins |->
                LET chans == ChannelsOf(gs)
                    F[S \in SUBSET chans] ==
                        IF S = {} THEN 0
                        ELSE LET c == CHOOSE x \in S : TRUE IN cc[c][e] + F[S \ {c}]
                IN  F[chans]]
        ELSE SumChannels(gs[GroupIndex(gs, g)][2], cc, n_bins)]

\* 'Total' incremented inside the channel loop, by the running counts
RECURSIVE RunningTotals(_, _, _)
RunningTotals(chans, cc, n_bins) ==
    IF chans = <<>> THEN np_zeros(n_bins)
    ELSE AddArrays(RunningTotals(SubSeq(chans, 1, Len(chans) - 1), cc, n_bins),
                   SumChannels(chans, cc, n_bins))

RECURSIVE SumRunning(_, _, _)
SumRunning(gs, cc, n_bins) ==
    IF gs = <<>> THEN np_zeros(n_bins)
    ELSE AddArrays(SumRunning(SubSeq(gs, 1, Len(gs) - 1), cc, n_bins),
                   RunningTotals(gs[Len(gs)][2], cc, n_bins))

get_group_counts_inner(cc, gs, n_bins) ==
    [g \in {"Total"} \cup GroupNames(gs) |->
        IF g = "Total" THEN SumRunning(gs, cc, n_bins)
        ELSE SumChannels(gs[GroupIndex(gs, g)][2], cc, n_bins)]

\* get_group_counts(channel_counts, groups, n_bins)
get_group_counts(cc, gs, n_bins) ==
    [g \in {"Total"} \cup GroupNames(gs) |->
        IF g = "Total" THEN SumGroups(gs, cc, n_bins)
        ELSE SumChannels(gs[GroupIndex(gs, g)][2], cc, n_bins)]

\* counts = np.zeros(n_bins): a new array, sharing no memory with a channel
new_counts(n_bins) == [base |-> "new", data |-> np_zeros(n_bins)]

\* counts += channel_counts[chan] over a group's channels: the accumulator
\* and the contents of the channel_counts arrays afterwards
RECURSIVE AddChannels(_, _, _)
AddChannels(chans, counts, cc) ==
    IF chans = <<>> THEN [counts |-> counts, cc |-> cc]
    ELSE LET data == AddArrays(counts.data, cc[Head(chans)])
         IN  AddChannels(Tail(chans), [counts EXCEPT !.data = data],
                         IF counts.base \in DOMAIN cc
                         THEN [cc EXCEPT ![counts.base] = data] ELSE cc)

\* the contents of the caller's channel_counts arrays after get_group_counts
RECURSIVE ChannelCountsAfter(_, _, _)
ChannelCountsAfter(gs, cc, n_bins) ==
    IF gs = <<>> THEN cc
    ELSE ChannelCountsAfter(Tail(gs), AddChannels(Head(gs)[2], new_counts(n_bins), cc).cc,
                            n_bins)

\* get_totals(group_counts)
get_totals(gc) == [g \in DOMAIN gc |-> Sum(gc[g])]

\* the mean energy without the test of the total
get_avg_unguarded(gc, totals, eb) ==
    [g \in DOMAIN totals |->
        RDiv(R(Sum([e \in 1..Len(eb) |-> gc[g][e] * eb[e]])), R(totals[g]))]

\* get_avg(group_counts, group_totals, energy_bins)
get_avg(gc, totals, eb) ==
    [g \in DOMAIN totals |->
        IF totals[g] # 0
        THEN RDiv(R(Sum([e \in 1..Len(eb) |-> gc[g][e] * eb[e]])), R(totals[g]))
        ELSE R(0)]

----------------------------------------------------------------------------
(* snowglobes/snow_tools.py: time integration *)

\* y_column(y_var, channel) = f'{y_var}_{channel}'
y_column(y_var, channel) == <<y_var, channel>>

\* xarray's sum over a float dimension (skipna): nan entries are left out
RECURSIVE xr_sum(_)
xr_sum(a) ==
    IF a = <<>> THEN R(0)
    ELSE IF IsNaN(Head(a)) THEN xr_sum(Tail(a))
    ELSE RAdd(Head(a), xr_sum(Tail(a)))

\* slice(0, n_bins + 1) in place of slice(0, n_bins)
isel_time_inclusive(ds, n) ==
    [col \in DOMAIN ds |-> [m \in 1..Len(ds[col]) |-> PySlice(ds[col][m], 0, n + 1)]]

\* mass_tables.isel(Time=slice(0, n_bins))
isel_time(ds, n) ==
    [col \in DOMAIN ds |-> [m \in 1..Len(ds[col]) |-> PySlice(ds[col][m], 0, n)]]

\* channels.insert(0, 'Total'): the caller's list object is changed in place
prepend_total_inplace(chans) ==
    [local |-> <<"Total">> \o chans, arg |-> <<"Total">> \o chans]

\* channels = ['Total'] + channels: the local name is bound to a new list
\* (local), the list object the caller passed keeps its contents (arg)
prepend_total(chans) == [local |-> <<"Total">> \o chans, arg |-> chans]

\* table = xr.Dataset(): a new, empty dataset object
xr_Dataset(ds) == [id |-> "table", data |-> <<>>]

\* table[col] = v
SetItem(ds, col, v) == [c \in DOMAIN ds \cup {col} |-> IF c = col THEN v ELSE ds[c]]

\* the loop over the channels (lines 118-126), writing two columns per channel
RECURSIVE IntegrateChannels(_, _, _)
IntegrateChannels(names, time_slice, table) ==
    IF names = <<>> THEN table
    ELSE LET tot == y_column("Tot", Head(names))
             av == y_column("Avg", Head(names))
             n_mass == Len(time_slice[tot])
             total_counts == [m \in 1..n_mass |-> xr_sum(time_slice[tot][m])]
             total_energy ==
                 [m \in 1..n_mass |->
                     xr_sum([k \in 1..Len(time_slice[tot][m]) |->
                                RMul(time_slice[av][m][k], time_slice[tot][m][k])])]
             mean == [m \in 1..n_mass |-> RDiv(total_energy[m], total_counts[m])]
         IN  IntegrateChannels(Tail(names), time_slice,
                               SetItem(SetItem(table, tot, total_counts), av, mean))

\* one call of time_integrate: the returned table and the contents of the
\* caller's mass_tables and channels objects when it returns
time_integrate_call(mt, n, chans) ==
    LET names == prepend_total(chans)
        new == xr_Dataset(mt)
        table == IntegrateChannels(names.local, isel_time(mt, n),
                                   IF new.id = "mass_tables" THEN mt ELSE new.data)
    IN  [table |-> table,
         mass_tables |-> IF new.id = "mass_tables" THEN table ELSE mt,
         channels |-> names.arg]

\* time_integrate(mass_tables, n_bins, channels) : dataset {column: [mass]}
time_integrate(mt, n, chans) == time_integrate_call(mt, n, chans).table

\* np.arange(0, stop - 1): window sizes counted from 0
np_arange_zero(start, stop) == [k \in 1..(stop - start) |-> k - 1]

\* np.arange(start, stop)
np_arange(start, stop) == [k \in 1..(stop - start) |-> start + k - 1]

\* bins of get_cumulative
cumulative_bins(max_n) == np_arange(1, max_n + 1)

\* xr.concat(cumulative.values(), dim='n_bins') with coords['n_bins'] = bins
xr_concat(cum, bins) == [n_bins |-> bins, data |-> [k \in 1..Len(cum) |-> cum[k][2]]]

----------------------------------------------------------------------------
(* write_fluxes.py *)

\* the column mapping with ebar taken from the heavy-lepton class
flavor_map_heavy_ebar ==
    << <<"e", "e">>, <<"mu", "x">>, <<"tau", "x">>,
       <<"ebar", "x">>, <<"mubar", "x">>, <<"taubar", "x">> >>

\* flavor_map of get_flux_table, (column, flavor class) in the dict's order
flavor_map ==
    << <<"e", "e">>, <<"mu", "x">>, <<"tau", "x">>,
       <<"ebar", "a">>, <<"mubar", "x">>, <<"taubar", "x">> >>

\* get_flux_table(time_i, e_bins, fluxes): the columns (name, values) in order
get_flux_table(time_i, eb, fx) ==
    IF \E k \in 1..Len(flavor_map) : ~InRange(fx[flavor_map[k][2]], time_i)
    THEN Raise("IndexError")
    ELSE Ok(<< <<"E_nu", eb>> >>
            \o [k \in 1..Len(flavor_map) |->
                   <<flavor_map[k][1], PyIndex(fx[flavor_map[k][2]], time_i)>>])

\* get_key_table(timebins, dt): rows (i, time[s], dt[s])
get_key_table(tb, dt) == [k \in 1..Len(tb) |-> [i |-> k, time |-> tb[k], dt |-> dt]]

\* the number in the name of the flux file of time bin i, f'..._{i+1}.dat'
flux_file_number(i) == i + 1

----------------------------------------------------------------------------
(* Inputs *)

\* strictly increasing time arrays over 0..MaxTime with 1..MaxLen timesteps
RECURSIVE Increasing(_, _)
Increasing(n, lo) ==
    IF n = 0 THEN {<<>>}
    ELSE UNION {{<<v>> \o rest : rest \in Increasing(n - 1, v + 1)} : v \in lo..MaxTime}

TimeArrays == UNION {Increasing(n, 0) : n \in 1..MaxLen}

\* rows [flavors] of a raw variable; column "e" is constant in time
Rows == {<<2, 1, 0>>, <<2, 3, 4>>, <<2, 0, 3>>}

RowArrays(n) == [1..n -> Rows]

\* average energies rising by da per timestep, rms = avg + gap
EnergyArray(n, a0, da) == [k \in 1..n |-> [f \in 1..NFlav |-> a0 + da * (k - 1) + (f - 1)]]

QueryTimes == (-1)..(MaxTime + 1)

\* uniform output bins: left edges left0, left0 + dt, ...
TimeBinArrays ==
    {[k \in 1..n |-> left0 + dt * (k - 1)] :
        left0 \in 0..1, dt \in 1..2, n \in 1..MaxBins}

EnergyBinArrays == {<<5>>, <<5, 6>>}

\* (avg of flavor "e" at the first timestep, rise per timestep, rms - avg)
EnergyProfiles == {<<10, 0, 2>>, <<10, 2, 3>>, <<12, 0, -2>>}

NoResult == [ok |-> FALSE, val |-> <<>>, err |-> "unset"]

\* the parts of the state an operation does not use
NoRaw == time = <<>> /\ lum = <<>> /\ avg = <<>> /\ rms = <<>>

NoInterp == t = <<>> /\ y_name = "lum" /\ y_out = NoResult

NoSlice == bin_edges = <<>> /\ sliced = NoResult

NoFluence == timebins = <<>> /\ e_bins = <<>> /\ i_bin = 0 /\ fluences = <<>>

NoAnalysis ==
    /\ file_energies = <<>> /\ channel_counts = <<>> /\ groups = <<>>
    /\ energy_bins = <<>> /\ group_counts = <<>> /\ group_totals = <<>>
    /\ group_avg = <<>>

NoSummary ==
    /\ mass_tables = <<>> /\ channels = <<>> /\ n_window = 0 /\ summary = <<>>
    /\ max_n_bins = 0 /\ cumulative = <<>> /\ x_cumulative = <<>>

NoWriter == fluxes = <<>> /\ key_table = <<>> /\ flux_files = <<>> /\ i_file = 0

NoLoader ==
    /\ environ = "unset" /\ files_read = {} /\ call = "none" /\ outcome = NoResult
    /\ sg = <<>>

NoOutput ==
    /\ missing = {} /\ out_tables = <<>> /\ mass = "none" /\ i_time = 0
    /\ time_totals = <<>> /\ time_avg = <<>>

NoDicts ==
    /\ model_sets = <<>> /\ alphas = <<>> /\ heap = <<>> /\ tables = <<>>
    /\ ld_i = 0 /\ ld_j = 0

NoAlpha == a_avg = R(0) /\ a_rms = R(0) /\ a_alpha = NoResult

NoConvert == NoRaw /\ NoInterp /\ NoSlice /\ NoFluence

NoExt == NoSummary /\ NoWriter /\ NoLoader /\ NoOutput /\ NoDicts /\ NoAlpha

Var(name) == CASE name = "lum" -> lum [] name = "avg" -> avg [] name = "rms" -> rms

----------------------------------------------------------------------------
(* Interpolator: one call of interpolate_time on a query point *)

InitInterp ==
    /\ stage = "interp"
    /\ pc = "ready"
    /\ time \in TimeArrays
    /\ lum \in RowArrays(Len(time))
    /\ avg = EnergyArray(Len(time), 10, 2)
    /\ rms = EnergyArray(Len(time), 12, 2)
    /\ NoInterp /\ NoSlice /\ NoFluence /\ NoAnalysis /\ NoExt

InterpolateTime ==
    /\ stage = "interp"
    /\ \E q \in QueryTimes, name \in {"lum", "avg", "rms"} :
          /\ t' = <<q>>
          /\ y_name' = name
          /\ y_out' = interpolate_time(<<q>>, time, Var(name))
    /\ pc' = IF y_out'.ok THEN "done" ELSE "error"
    /\ UNCHANGED <<stage, extVars, rawVars, sliceVars, fluenceVars, analysisVars>>

NextInterp == InterpolateTime

SpecInterp == InitInterp /\ [][NextInterp]_vars

----------------------------------------------------------------------------
(* Time-Binner: one call of slice_timebin on a bin [left, right] *)

InitSlice ==
    /\ stage = "slice"
    /\ pc = "ready"
    /\ time \in TimeArrays
    /\ lum \in RowArrays(Len(time))
    /\ avg = EnergyArray(Len(time), 10, 2)
    /\ rms = EnergyArray(Len(time), 12, 2)
    /\ NoInterp /\ NoSlice /\ NoFluence /\ NoAnalysis /\ NoExt

SliceTimebin ==
    /\ stage = "slice"
    /\ pc = "ready"
    /\ \E left \in QueryTimes, right \in QueryTimes :
          /\ left < right
          /\ bin_edges' = <<left, right>>
          /\ LET ret == slice_timebin_call(<<left, right>>, time,
                                           [lum |-> lum, avg |-> avg, rms |-> rms])
             IN  /\ sliced' = ret.ret
                 /\ time' = ret.time
                 /\ lum' = ret.y_vars.lum
                 /\ avg' = ret.y_vars.avg
                 /\ rms' = ret.y_vars.rms
    /\ pc' = IF sliced'.ok THEN "done" ELSE "error"
    /\ UNCHANGED <<stage, extVars, interpVars, fluenceVars, analysisVars>>

NextSlice == SliceTimebin

SpecSlice == InitSlice /\ [][NextSlice]_vars

----------------------------------------------------------------------------
(* Fluence Integrator: get_fluences, one step per time bin *)

FluenceRows == {<<2, 1, 0>>, <<2, 3, 4>>}

InitFluence ==
    /\ stage = "fluence"
    /\ pc = "ready"
    /\ time \in TimeArrays
    /\ lum \in [1..Len(time) -> FluenceRows]
    /\ \E p \in EnergyProfiles :
          /\ avg = EnergyArray(Len(time), p[1], p[2])
          /\ rms = EnergyArray(Len(time), p[1] + p[3], p[2])
    /\ timebins \in TimeBinArrays
    /\ e_bins \in EnergyBinArrays
    /\ i_bin = 0
    /\ fluences = <<>>
    /\ NoInterp /\ NoSlice /\ NoAnalysis /\ NoExt

\* lines 34-42: dt = np.diff(timebins)[0] raises on fewer than two bins
GetFluencesBegin ==
    /\ stage = "fluence"
    /\ pc = "ready"
    /\ IF Len(timebins) < 2
       THEN /\ pc' = "error"
            /\ UNCHANGED fluences
       ELSE /\ pc' = "loop"
            /\ fluences' = [f \in 1..NFlav |-> zeros(Len(timebins), Len(e_bins))]
    /\ UNCHANGED <<stage, extVars, rawVars, interpVars, sliceVars, analysisVars,
                   timebins, e_bins, i_bin>>

\* lines 44-60: one iteration of the loop over the time bins
ProcessBin ==
    /\ stage = "fluence"
    /\ pc = "loop"
    /\ i_bin < Len(timebins)
    /\ LET fluence == bin_fluence(i_bin, time, [lum |-> lum, avg |-> avg, rms |-> rms],
                                  timebins, e_bins)
       IN  IF ~fluence.ok
           THEN /\ pc' = "error"
                /\ UNCHANGED <<i_bin, fluences>>
           ELSE /\ fluences' = [f \in 1..NFlav |->
                                  [fluences[f] EXCEPT ![i_bin + 1] = fluence.val[f]]]
                /\ i_bin' = i_bin + 1
                /\ pc' = "loop"
    /\ UNCHANGED <<stage, extVars, rawVars, interpVars, sliceVars, analysisVars,
                   timebins, e_bins>>

\* line 62: return fluences
GetFluencesReturn ==
    /\ stage = "fluence"
    /\ pc = "loop"
    /\ i_bin = Len(timebins)
    /\ pc' = "done"
    /\ UNCHANGED <<stage, extVars, rawVars, interpVars, sliceVars, analysisVars, fluenceVars>>

NextFluence == GetFluencesBegin \/ ProcessBin \/ GetFluencesReturn

SpecFluence == InitFluence /\ [][NextFluence]_vars

----------------------------------------------------------------------------
(* Channel Aggregator: the analysis of one snapshot in analyze_output *)

Channels == {"c1", "c2"}

\* channel lists of a group: any order, repeats allowed
ChannelLists == UNION {[1..n -> Channels] : n \in 0..2}

\* channel_groups of a detector; 'Total' is reserved and never a group name
GroupConfigs ==
    {<<>>}
    \cup {<< <<"g1", l1>> >> : l1 \in ChannelLists}
    \cup {<< <<"g1", l1>>, <<"g2", l2>> >> : l1 \in ChannelLists, l2 \in ChannelLists}

InitAnalysis ==
    /\ stage = "analysis"
    /\ pc = "ready"
    /\ file_energies \in {<<1, 2>>, <<0, 1, 3>>}
    /\ groups \in GroupConfigs
    /\ channel_counts \in [ChannelsOf(groups) -> [1..Len(file_energies) -> 0..MaxCount]]
    /\ energy_bins = <<>>
    /\ group_counts = <<>>
    /\ group_totals = <<>>
    /\ group_avg = <<>>
    /\ NoRaw /\ NoInterp /\ NoSlice /\ NoFluence /\ NoExt

\* lines 15-26: channels[0] names the file the energy bins are read from
LoadEnergyBins ==
    /\ stage = "analysis"
    /\ pc = "ready"
    /\ IF get_all_channels(groups) = <<>>
       THEN /\ pc' = "error"
            /\ UNCHANGED energy_bins
       ELSE /\ pc' = "bins"
            /\ energy_bins' = load_energy_bins(file_energies)
    /\ UNCHANGED <<stage, extVars, rawVars, interpVars, sliceVars, fluenceVars, file_energies,
                   channel_counts, groups, group_counts, group_totals, group_avg>>

\* lines 42-44
GetGroupCounts ==
    /\ stage = "analysis"
    /\ pc = "bins"
    /\ group_counts' = get_group_counts(channel_counts, groups, Len(energy_bins))
    /\ channel_counts' = ChannelCountsAfter(groups, channel_counts, Len(energy_bins))
    /\ pc' = "counts"
    /\ UNCHANGED <<stage, extVars, rawVars, interpVars, sliceVars, fluenceVars, file_energies,
                   groups, energy_bins, group_totals, group_avg>>

\* line 46
GetTotals ==
    /\ stage = "analysis"
    /\ pc = "counts"
    /\ group_totals' = get_totals(group_counts)
    /\ pc' = "totals"
    /\ UNCHANGED <<stage, extVars, rawVars, interpVars, sliceVars, fluenceVars, file_energies,
                   channel_counts, groups, energy_bins, group_counts, group_avg>>

\* lines 47-49
GetAvg ==
    /\ stage = "analysis"
    /\ pc = "totals"
    /\ group_avg' = get_avg(group_counts, group_totals, energy_bins)
    /\ pc' = "done"
    /\ UNCHANGED <<stage, extVars, rawVars, interpVars, sliceVars, fluenceVars, file_energies,
                   channel_counts, groups, energy_bins, group_counts, group_totals>>

NextAnalysis == LoadEnergyBins \/ GetGroupCounts \/ GetTotals \/ GetAvg

SpecAnalysis == InitAnalysis /\ [][NextAnalysis]_vars

----------------------------------------------------------------------------
(* Time-Integration / Summary Engine: time_integrate and get_cumulative *)

MaxSteps == 3

\* one timestep of a mass table, per group (Tot, Avg): the mean energy of a
\* group without counts is 0, as get_avg writes it
StepRows ==
    {[Total |-> <<0, 0>>, c1 |-> <<0, 0>>],
     [Total |-> <<2, 15>>, c1 |-> <<1, 10>>],
     [Total |-> <<1, 20>>, c1 |-> <<0, 0>>]}

SummaryChannels == <<"c1">>

\* the dataset {column: [mass, Time]} of mass tables given row by row
AsDataset(rows) ==
    [col \in {y_column(v, g) : v \in {"Tot", "Avg"}, g \in {"Total", "c1"}} |->
        [m \in 1..Len(rows) |-> [k \in 1..Len(rows[m]) |->
            R(rows[m][k][col[2]][IF col[1] = "Tot" THEN 1 ELSE 2])]]]

MassTables ==
    {AsDataset(rows) : rows \in UNION {[1..n_mass -> [1..n_time -> StepRows]] :
                                          n_mass \in 1..2, n_time \in 1..MaxSteps}}

NTime(mt) == Len(mt[y_column("Tot", "Total")][1])

NMass(mt) == Len(mt[y_column("Tot", "Total")])

InitSummary ==
    /\ stage = "summary"
    /\ pc = "ready"
    /\ mass_tables \in MassTables
    /\ channels = SummaryChannels
    /\ n_window = 0 /\ summary = <<>>
    /\ max_n_bins = 0 /\ cumulative = <<>> /\ x_cumulative = <<>>
    /\ NoConvert /\ NoAnalysis /\ NoWriter /\ NoLoader /\ NoOutput /\ NoDicts /\ NoAlpha

\* one call time_integrate(mass_tables, n_bins, channels)
TimeIntegrate ==
    /\ stage = "summary"
    /\ pc = "ready"
    /\ \E n \in 0..(NTime(mass_tables) + 1) :
          LET ret == time_integrate_call(mass_tables, n, channels)
          IN  /\ n_window' = n
              /\ summary' = ret.table
              /\ mass_tables' = ret.mass_tables
              /\ channels' = ret.channels
    /\ pc' = "integrated"
    /\ UNCHANGED <<stage, convertVars, analysisVars, writerVars, loaderVars, outputVars,
                   dictVars, alphaVars, max_n_bins, cumulative, x_cumulative>>

\* get_cumulative, lines 146-147
GetCumulativeBegin ==
    /\ stage = "summary"
    /\ pc = "ready"
    /\ \E n \in 1..(NTime(mass_tables) + 1) : max_n_bins' = n
    /\ cumulative' = <<>>
    /\ pc' = "cumulating"
    /\ UNCHANGED <<stage, convertVars, analysisVars, writerVars, loaderVars, outputVars,
                   dictVars, alphaVars, mass_tables, channels, n_window, summary,
                   x_cumulative>>

\* lines 149-151: cumulative[b] = time_integrate(mass_tables, n_bins=b, ...)
GetCumulativeStep ==
    /\ stage = "summary"
    /\ pc = "cumulating"
    /\ Len(cumulative) < Len(cumulative_bins(max_n_bins))
    /\ LET b == cumulative_bins(max_n_bins)[Len(cumulative) + 1]
           ret == time_integrate_call(mass_tables, b, channels)
       IN  /\ cumulative' = Append(cumulative, <<b, ret.table>>)
           /\ mass_tables' = ret.mass_tables
           /\ channels' = ret.channels
    /\ pc' = "cumulating"
    /\ UNCHANGED <<stage, convertVars, analysisVars, writerVars, loaderVars, outputVars,
                   dictVars, alphaVars, n_window, summary, max_n_bins, x_cumulative>>

\* lines 154-157
GetCumulativeReturn ==
    /\ stage = "summary"
    /\ pc = "cumulating"
    /\ Len(cumulative) = Len(cumulative_bins(max_n_bins))
    /\ x_cumulative' = xr_concat(cumulative, cumulative_bins(max_n_bins))
    /\ pc' = "done"
    /\ UNCHANGED <<stage, convertVars, analysisVars, writerVars, loaderVars, outputVars,
                   dictVars, alphaVars, mass_tables, channels, n_window, summary,
                   max_n_bins, cumulative>>

NextSummary ==
    TimeIntegrate \/ GetCumulativeBegin \/ GetCumulativeStep \/ GetCumulativeReturn

SpecSummary == InitSummary /\ [][NextSummary]_vars

----------------------------------------------------------------------------
(* Flux-File Writer: write_fluxes, one step per file *)

\* (e, a, x) marks that tell the flavor classes of a flux table apart
FlavorMarks == {<<1, 2, 3>>, <<3, 1, 2>>, <<2, 2, 2>>, <<1, 1, 2>>}

\* fluxes {flavor: [timebins, e_bins]} with entries that name their place
FluxTables(n_t, n_e) ==
    {[f \in {"e", "a", "x"} |->
         [r \in 1..n_t |-> [e \in 1..n_e |->
             100 * v[CHOOSE k \in 1..NFlav : flavors[k] = f] + 10 * r + e]]] :
     v \in FlavorMarks}

InitWriter ==
    /\ stage = "writer"
    /\ pc = "ready"
    /\ timebins \in TimeBinArrays
    /\ e_bins \in EnergyBinArrays
    /\ fluxes \in FluxTables(Len(timebins), Len(e_bins))
    /\ key_table = <<>> /\ flux_files = <<>> /\ i_file = 0
    /\ i_bin = 0 /\ fluences = <<>>
    /\ NoRaw /\ NoInterp /\ NoSlice /\ NoAnalysis
    /\ NoSummary /\ NoLoader /\ NoOutput /\ NoDicts /\ NoAlpha

\* lines 25-33: dt = np.diff(timebins)[0] raises on fewer than two bins,
\* before the key file is opened
WriteKeyTable ==
    /\ stage = "writer"
    /\ pc = "ready"
    /\ IF Len(timebins) < 2
       THEN /\ pc' = "error"
            /\ UNCHANGED key_table
       ELSE /\ pc' = "writing"
            /\ key_table' = get_key_table(timebins, timebins[2] - timebins[1])
    /\ UNCHANGED <<stage, rawVars, interpVars, sliceVars, fluenceVars, analysisVars,
                   summaryVars, loaderVars, outputVars, dictVars, alphaVars,
                   fluxes, flux_files, i_file>>

\* lines 36-41: one iteration of the loop over the time bins
WriteFluxFile ==
    /\ stage = "writer"
    /\ pc = "writing"
    /\ i_file < Len(timebins)
    /\ LET table == get_flux_table(i_file, e_bins, fluxes)
       IN  IF ~table.ok
           THEN /\ pc' = "error"
                /\ UNCHANGED <<flux_files, i_file>>
           ELSE /\ flux_files' = SetItem(flux_files, flux_file_number(i_file), table.val)
                /\ i_file' = i_file + 1
                /\ pc' = "writing"
    /\ UNCHANGED <<stage, rawVars, interpVars, sliceVars, fluenceVars, analysisVars,
                   summaryVars, loaderVars, outputVars, dictVars, alphaVars,
                   fluxes, key_table>>

\* the loop is over: write_fluxes returns
WriteFluxesReturn ==
    /\ stage = "writer"
    /\ pc = "writing"
    /\ i_file = Len(timebins)
    /\ pc' = "done"
    /\ UNCHANGED <<stage, convertVars, analysisVars, extVars>>

NextWriter == WriteKeyTable \/ WriteFluxFile \/ WriteFluxesReturn

SpecWriter == InitWriter /\ [][NextWriter]_vars

----------------------------------------------------------------------------
(* snowglobes/snow_tools.py: table loading; snowglobes/snowglobes.py *)

DiskSteps == 4

\* config.mass_list and config.channels[detector] (configuration surface)
ConfigMassList == <<"m1", "m2">>

ConfigChannels == SummaryChannels

\* os.environ.get('ECRATE', '.'): a default in place of the error
ecrate_path_default(env) == IF env = "unset" THEN Ok(".") ELSE Ok(env)

\* ecrate_path(): os.environ['ECRATE'], KeyError turned into EnvironmentError
ecrate_path(env) == IF env = "unset" THEN Raise("EnvironmentError") ELSE Ok(env)

\* data_path()
data_path(env) ==
    LET path == ecrate_path(env)
    IN  IF ~path.ok THEN path ELSE Ok(<<path.val, "plotRoutines", "SnowglobesData">>)

\* prog_path()
prog_path(env) ==
    LET path == ecrate_path(env)
    IN  IF ~path.ok THEN path
        ELSE Ok(<<path.val, "plotRoutines", "data", <<"progenitor_table">> >>)

\* the time table analyze_output wrote for (tab, mass): DiskSteps timesteps
mass_table_file(tab, m) ==
    [k \in 1..DiskSteps |->
        IF m = "m1" /\ k = tab THEN [Total |-> <<0, 0>>, c1 |-> <<0, 0>>]
        ELSE IF k <= tab THEN [Total |-> <<2, 15>>, c1 |-> <<1, 10>>]
        ELSE [Total |-> <<1, 20>>, c1 |-> <<0, 0>>]]

\* pd.read_csv(filepath): the table stored in the file; the last component
\* of a path is the file name, given by its parts
read_csv(filepath) ==
    IF filepath[Len(filepath)][1] = "mass_table"
    THEN mass_table_file(filepath[Len(filepath)][3], filepath[Len(filepath)][4])
    ELSE <<"table", filepath>>

\* a load operation's outcome (ret) and the files it read, in order (reads)
Loaded(ret, reads) == [ret |-> ret, reads |-> reads]

\* load_summary_table(tab, detector, time_integral)
load_summary_table(env, tab, detector, time_integral) ==
    LET path == data_path(env)
        filepath == path.val \o << <<"summary", detector, time_integral, tab>> >>
    IN  IF ~path.ok THEN Loaded(path, <<>>)
        ELSE Loaded(Ok(read_csv(filepath)), <<filepath>>)

\* load_mass_table(mass, tab, detector, output_dir)
load_mass_table(env, m, tab, detector, output_dir) ==
    LET path == data_path(env)
        filepath == path.val \o <<output_dir, <<"mass_table", detector, tab, m>> >>
    IN  IF ~path.ok THEN Loaded(path, <<>>)
        ELSE Loaded(Ok(read_csv(filepath)), <<filepath>>)

\* load_prog_table()
load_prog_table(env) ==
    LET filepath == prog_path(env)
    IN  IF ~filepath.ok THEN Loaded(filepath, <<>>)
        ELSE Loaded(Ok(read_csv(filepath.val)), <<filepath.val>>)

\* the loop of load_all_mass_tables over mass_list[done+1..]: the tables
\* loaded so far, or the exception of the first load that failed
RECURSIVE LoadMasses(_, _, _, _, _, _, _)
LoadMasses(env, mass_list, tab, detector, output_dir, loaded, reads) ==
    IF Len(loaded) = Len(mass_list) THEN Loaded(Ok(loaded), reads)
    ELSE LET table == load_mass_table(env, mass_list[Len(loaded) + 1], tab, detector,
                                      output_dir)
         IN  IF ~table.ret.ok THEN Loaded(table.ret, reads \o table.reads)
             ELSE LoadMasses(env, mass_list, tab, detector, output_dir,
                             Append(loaded, table.ret.val), reads \o table.reads)

\* load_all_mass_tables(mass_list, tab, detector, output_dir); xr.concat of
\* no table raises ValueError
load_all_mass_tables(env, mass_list, tab, detector, output_dir) ==
    LET loop == LoadMasses(env, mass_list, tab, detector, output_dir, <<>>, <<>>)
    IN  IF ~loop.ret.ok THEN loop
        ELSE IF mass_list = <<>> THEN Loaded(Raise("ValueError"), loop.reads)
        ELSE Loaded(Ok(AsDataset(loop.ret.val)), loop.reads)

\* the loop of SnowGlobesData.load_mass_tables over tabs[done+1..]
RECURSIVE LoadModelSets(_, _, _, _)
LoadModelSets(env, obj, loaded, reads) ==
    IF Len(loaded) = Len(obj.tabs) THEN Loaded(Ok(loaded), reads)
    ELSE LET table == load_all_mass_tables(env, obj.mass_list, obj.tabs[Len(loaded) + 1],
                                           obj.detector, obj.output_dir)
         IN  IF ~table.ret.ok THEN Loaded(table.ret, reads \o table.reads)
             ELSE LoadModelSets(env, obj, Append(loaded, table.ret.val),
                                reads \o table.reads)

\* print_time_slice(n_bins): Time.values[n_bins] of the first model
print_time_slice(obj, n) ==
    LET ref_table == obj.mass_tables[obj.model_sets[1]]
        Time == [k \in 1..NTime(ref_table) |-> k]
    IN  IF InRange(Time, 0) /\ InRange(Time, n) THEN Ok(<<PyIndex(Time, 0), PyIndex(Time, n)>>)
        ELSE Raise("IndexError")

\* np.mean(table[f'Tot_{channel}'] / table['Tot_Total']) over the masses
MeanFraction(table, channel) ==
    LET n_mass == Len(table[y_column("Tot", "Total")])
        frac == [m \in 1..n_mass |-> RDiv(table[y_column("Tot", channel)][m],
                                          table[y_column("Tot", "Total")][m])]
        RECURSIVE np_sum(_)
        np_sum(a) == IF a = <<>> THEN R(0) ELSE RAdd(Head(a), np_sum(Tail(a)))
    IN  RDiv(np_sum(frac), R(n_mass))

\* snow_tools.get_channel_fractions(tables, channels)
get_channel_fractions(summaries, chans) ==
    [model_set \in DOMAIN summaries |->
        [k \in 1..Len(chans) |-> MeanFraction(summaries[model_set], chans[k])]]

SeqToSet(a) == {a[k] : k \in 1..Len(a)}

\* Python's None for a table that is not loaded, a list that is not given
None == <<>>

ModelSetLists == {<<"LMP">>, <<"LMP", "SNA">>}

MassLists == {<<"m1">>, <<"m1", "m2">>}

InitLoader ==
    /\ stage = "loader"
    /\ pc = "ready"
    /\ environ \in {"unset", "/ecrate"}
    /\ files_read = {}
    /\ call = "none"
    /\ outcome = NoResult
    /\ sg = <<>>
    /\ NoConvert /\ NoAnalysis /\ NoSummary /\ NoWriter /\ NoOutput /\ NoDicts /\ NoAlpha

LoaderFrame ==
    UNCHANGED <<stage, convertVars, analysisVars, summaryVars, writerVars, outputVars,
                dictVars, alphaVars, environ>>

\* a call of one of the table-loading functions of snow_tools
Returned(name, loaded) ==
    /\ call' = name
    /\ outcome' = loaded.ret
    /\ files_read' = files_read \cup SeqToSet(loaded.reads)
    /\ UNCHANGED <<pc, sg>>
    /\ LoaderFrame

LoadSummaryTable ==
    /\ stage = "loader" /\ pc = "ready"
    /\ \E tab \in 1..2 :
          Returned("load_summary_table", load_summary_table(environ, tab, "ar40kt", 30))

LoadMassTable ==
    /\ stage = "loader" /\ pc = "ready"
    /\ \E tab \in 1..2, m \in SeqToSet(ConfigMassList) :
          Returned("load_mass_table",
                   load_mass_table(environ, m, tab, "ar40kt", "mass_tables"))

LoadAllMassTables ==
    /\ stage = "loader" /\ pc = "ready"
    /\ \E tab \in 1..2, mass_list \in MassLists :
          Returned("load_all_mass_tables",
                   load_all_mass_tables(environ, mass_list, tab, "ar40kt", "mass_tables"))

LoadProgTable ==
    /\ stage = "loader" /\ pc = "ready"
    /\ Returned("load_prog_table", load_prog_table(environ))

\* SnowGlobesData.__init__, lines 41-60
SgConstruct ==
    /\ stage = "loader" /\ pc = "ready"
    /\ \E sets \in ModelSetLists, mass_list \in MassLists \cup {None},
          n \in 1..(DiskSteps + 1), load_data \in BOOLEAN :
          /\ sg' = [detector |-> "ar40kt",
                    model_sets |-> sets,
                    tabs |-> [k \in 1..Len(sets) |-> k],
                    output_dir |-> "mass_tables_nomix",
                    n_bins |-> n,
                    channels |-> ConfigChannels,
                    mass_list |-> IF mass_list = None THEN ConfigMassList ELSE mass_list,
                    summary_tables |-> None,
                    mass_tables |-> None,
                    prog_table |-> None,
                    channel_fracs |-> None,
                    cumulative |-> None,
                    raised |-> "none"]
          /\ pc' = IF load_data THEN "load_mass_tables" ELSE "constructed"
    /\ UNCHANGED <<files_read, call, outcome>>
    /\ LoaderFrame

\* self.load_mass_tables(), lines 81-94
SgLoadMassTables ==
    /\ stage = "loader" /\ pc = "load_mass_tables"
    /\ LET loop == LoadModelSets(environ, sg, <<>>, <<>>)
       IN  /\ files_read' = files_read \cup SeqToSet(loop.reads)
           /\ IF ~loop.ret.ok
              THEN /\ sg' = [sg EXCEPT !.raised = loop.ret.err]
                   /\ pc' = "error"
              ELSE /\ sg' = [sg EXCEPT !.mass_tables =
                                [model_set \in SeqToSet(sg.model_sets) |->
                                    loop.ret.val[CHOOSE k \in 1..Len(sg.model_sets) :
                                                     sg.model_sets[k] = model_set]]]
                   /\ pc' = "integrate_summary"
    /\ UNCHANGED <<call, outcome>>
    /\ LoaderFrame

\* self.integrate_summary(), lines 105-121
SgIntegrateSummary ==
    /\ stage = "loader" /\ pc = "integrate_summary"
    /\ IF ~print_time_slice(sg, sg.n_bins).ok
       THEN /\ sg' = [sg EXCEPT !.raised = print_time_slice(sg, sg.n_bins).err]
            /\ pc' = "error"
       ELSE /\ sg' = [sg EXCEPT !.summary_tables =
                         [model_set \in SeqToSet(sg.model_sets) |->
                             time_integrate(sg.mass_tables[model_set], sg.n_bins,
                                            sg.channels)]]
            /\ pc' = "load_prog_table"
    /\ UNCHANGED <<files_read, call, outcome>>
    /\ LoaderFrame

\* self.load_prog_table(), lines 96-100
SgLoadProgTable ==
    /\ stage = "loader" /\ pc = "load_prog_table"
    /\ LET table == load_prog_table(environ)
       IN  /\ files_read' = files_read \cup SeqToSet(table.reads)
           /\ IF ~table.ret.ok
              THEN /\ sg' = [sg EXCEPT !.raised = table.ret.err]
                   /\ pc' = "error"
              ELSE /\ sg' = [sg EXCEPT !.prog_table = <<table.ret.val, sg.mass_list>>]
                   /\ pc' = "get_channel_fractions"
    /\ UNCHANGED <<call, outcome>>
    /\ LoaderFrame

\* self.get_channel_fractions(), lines 141-145
SgGetChannelFractions ==
    /\ stage = "loader" /\ pc = "get_channel_fractions"
    /\ sg' = [sg EXCEPT !.channel_fracs =
                 get_channel_fractions(sg.summary_tables, sg.channels)]
    /\ pc' = "constructed"
    /\ UNCHANGED <<files_read, call, outcome>>
    /\ LoaderFrame

NextLoader ==
    \/ LoadSummaryTable \/ LoadMassTable \/ LoadAllMassTables \/ LoadProgTable
    \/ SgConstruct \/ SgLoadMassTables \/ SgIntegrateSummary \/ SgLoadProgTable
    \/ SgGetChannelFractions

SpecLoader == InitLoader /\ [][NextLoader]_vars

----------------------------------------------------------------------------
(* A SnowGlobesData object in use: method calls after construction *)

\* what a method call leaves behind: its outcome (ret) and the object (obj)
Called(ret, obj) == [ret |-> ret, obj |-> obj]

\* self.load_mass_tables(), lines 81-94
self_load_mass_tables(env, obj) ==
    LET loop == LoadModelSets(env, obj, <<>>, <<>>)
    IN  IF ~loop.ret.ok THEN Called(loop.ret, obj)
        ELSE Called(Ok(None),
                    [obj EXCEPT !.mass_tables =
                        [model_set \in SeqToSet(obj.model_sets) |->
                            loop.ret.val[CHOOSE k \in 1..Len(obj.model_sets) :
                                             obj.model_sets[k] = model_set]]])

\* self.integrate_summary(n_bins), lines 105-121: print_time_slice runs
\* first, and summary_tables is assigned after the loop
self_integrate_summary(obj, n) ==
    LET slice == print_time_slice(obj, n)
    IN  IF ~slice.ok THEN Called(slice, obj)
        ELSE Called(Ok(None),
                    [obj EXCEPT !.summary_tables =
                        [model_set \in SeqToSet(obj.model_sets) |->
                            time_integrate(obj.mass_tables[model_set], n, obj.channels)]])

\* self.load_prog_table(), lines 96-100
self_load_prog_table(env, obj) ==
    LET table == load_prog_table(env)
    IN  IF ~table.ret.ok THEN Called(table.ret, obj)
        ELSE Called(Ok(None), [obj EXCEPT !.prog_table = <<table.ret.val, obj.mass_list>>])

\* self.get_channel_fractions(), lines 141-145
self_get_channel_fractions(obj) ==
    Called(Ok(None),
           [obj EXCEPT !.channel_fracs = get_channel_fractions(obj.summary_tables,
                                                               obj.channels)])

\* line 64 of __init__, reached when load_prog_table returned
AfterLoadProgTable(prog) ==
    IF ~prog.ret.ok THEN prog ELSE self_get_channel_fractions(prog.obj)

\* lines 63-64 of __init__, reached when integrate_summary returned
AfterIntegrateSummary(env, integrated) ==
    IF ~integrated.ret.ok THEN integrated
    ELSE AfterLoadProgTable(self_load_prog_table(env, integrated.obj))

\* lines 62-64 of __init__, reached when load_mass_tables returned
AfterLoadMassTables(env, loaded) ==
    IF ~loaded.ret.ok THEN loaded
    ELSE AfterIntegrateSummary(env, self_integrate_summary(loaded.obj, loaded.obj.n_bins))

\* SnowGlobesData(model_sets, mass_list, n_bins, load_data=True): the fields
\* of lines 41-53 and the four calls of lines 60-64, each made on the object
\* the one before left; an exception ends the construction
SnowGlobesData(env, sets, mass_list, n) ==
    AfterLoadMassTables(env, self_load_mass_tables(env,
        [detector |-> "ar40kt",
         model_sets |-> sets,
         tabs |-> [k \in 1..Len(sets) |-> k],
         output_dir |-> "mass_tables_nomix",
         n_bins |-> n,
         channels |-> ConfigChannels,
         mass_list |-> IF mass_list = None THEN ConfigMassList ELSE mass_list,
         summary_tables |-> None,
         mass_tables |-> None,
         prog_table |-> None,
         channel_fracs |-> None,
         cumulative |-> None,
         raised |-> "none"]))

\* the objects a construction with load_data=True returns
InitSession ==
    /\ stage = "session"
    /\ pc = "constructed"
    /\ environ = "/ecrate"
    /\ files_read = {}
    /\ call = "__init__"
    /\ \E sets \in ModelSetLists, mass_list \in MassLists \cup {None},
          n \in 1..(DiskSteps + 1) :
          LET built == SnowGlobesData(environ, sets, mass_list, n)
          IN  /\ built.ret.ok
              /\ sg = built.obj
              /\ n_window = n
    /\ outcome = Ok(None)
    /\ mass_tables = <<>> /\ channels = <<>> /\ summary = <<>>
    /\ max_n_bins = 0 /\ cumulative = <<>> /\ x_cumulative = <<>>
    /\ NoConvert /\ NoAnalysis /\ NoWriter /\ NoOutput /\ NoDicts /\ NoAlpha

SessionFrame ==
    UNCHANGED <<stage, pc, convertVars, analysisVars, writerVars, outputVars, dictVars,
                alphaVars, environ, files_read, mass_tables, channels, summary,
                max_n_bins, cumulative, x_cumulative>>

\* sg.load_mass_tables()
CallLoadMassTables ==
    /\ stage = "session"
    /\ LET done == self_load_mass_tables(environ, sg)
       IN  /\ call' = "load_mass_tables"
           /\ outcome' = done.ret
           /\ sg' = done.obj
    /\ UNCHANGED n_window
    /\ SessionFrame

\* sg.integrate_summary(n_bins), or sg.integrate_summary() for self.n_bins
CallIntegrateSummary ==
    /\ stage = "session"
    /\ \E given \in BOOLEAN, n \in 1..(DiskSteps + 1) :
          LET n_bins == IF given THEN n ELSE sg.n_bins
              done == self_integrate_summary(sg, n_bins)
          IN  /\ call' = "integrate_summary"
              /\ n_window' = n_bins
              /\ outcome' = done.ret
              /\ sg' = done.obj
    /\ SessionFrame

\* sg.get_channel_fractions()
CallGetChannelFractions ==
    /\ stage = "session"
    /\ LET done == self_get_channel_fractions(sg)
       IN  /\ call' = "get_channel_fractions"
           /\ outcome' = done.ret
           /\ sg' = done.obj
    /\ UNCHANGED n_window
    /\ SessionFrame

NextSession == CallLoadMassTables \/ CallIntegrateSummary \/ CallGetChannelFractions

SpecSession == InitSession /\ [][NextSession]_vars

----------------------------------------------------------------------------
(* analyze_output: the time table of one mass, one step per snapshot *)

MaxMissing == 2

OutputMasses == {"m1", "m2"}

\* channel_dat_filepath(channel, i, a, m, detector), for one tab and detector
channel_dat_filepath(channel, i, m) == <<m, i, channel>>

\* the two columns of the detector-output file of (mass, timestep, channel)
EnergyColumn == <<1, 2>>

CountsFile(m, i, channel) ==
    [e \in 1..Len(EnergyColumn) |->
        IF channel = "c1" THEN (IF m = "m1" THEN e - 1 ELSE i % 2)
        ELSE (IF i = 1 THEN 0 ELSE 1)]

\* a file that is absent read as an array of zeros
load_channel_dat_zero_fill(channel, i, m, absent) ==
    IF channel_dat_filepath(channel, i, m) \in absent
    THEN Ok(np_zeros(Len(EnergyColumn)))
    ELSE Ok(CountsFile(m, i, channel))

\* load_channel_dat: np.genfromtxt raises OSError for a file that is absent
load_channel_dat(channel, i, m, absent) ==
    IF channel_dat_filepath(channel, i, m) \in absent THEN Raise("OSError")
    ELSE Ok(CountsFile(m, i, channel))

\* load_channel_counts(channels, i, a, m, detector)
load_channel_counts(chans, i, m, absent) ==
    IF \E k \in 1..Len(chans) : ~load_channel_dat(chans[k], i, m, absent).ok
    THEN Raise("OSError")
    ELSE Ok([c \in SeqToSet(chans) |-> load_channel_dat(c, i, m, absent).val])

\* load_energy_bins(channel, i, a, m, detector) reading the file
read_energy_bins(channel, i, m, absent) ==
    IF channel_dat_filepath(channel, i, m) \in absent THEN Raise("OSError")
    ELSE Ok(load_energy_bins(EnergyColumn))

\* create_time_table(timesteps, time_totals, time_avg)
create_time_table(timesteps, totals, avgs) ==
    [Time |-> timesteps, Avg |-> avgs, Tot |-> totals]

\* lines 15-26: what ends analyze_output before its loop, if anything;
\* np.loadtxt returns a 0-d array for a key table of one row, and len() of
\* it raises TypeError
analyze_output_setup(key_times, gs, m, absent) ==
    IF Len(key_times) < 2 THEN Raise("TypeError")
    ELSE IF get_all_channels(gs) = <<>> THEN Raise("IndexError")
    ELSE read_energy_bins(get_all_channels(gs)[1], 1, m, absent)

OutputGroupConfigs ==
    {<< <<"g1", <<"c1">> >>, <<"g2", <<"c2">> >> >>,
     << <<"g1", <<"c1", "c2">> >> >>}

KeyTimes == {[k \in 1..n |-> k - 1] : n \in 1..DiskSteps}

OutputFiles(n_time) ==
    {channel_dat_filepath(c, i, m) : c \in Channels, i \in 1..n_time, m \in OutputMasses}

InitOutput ==
    /\ stage = "output"
    /\ pc = "ready"
    /\ time \in KeyTimes
    /\ groups \in OutputGroupConfigs
    /\ missing \in {files \in SUBSET OutputFiles(Len(time)) : Cardinality(files) <= MaxMissing}
    /\ file_energies = EnergyColumn
    /\ out_tables = <<>>
    /\ mass = "none"
    /\ i_time = 0 /\ time_totals = <<>> /\ time_avg = <<>>
    /\ channel_counts = <<>> /\ energy_bins = <<>> /\ group_counts = <<>>
    /\ group_totals = <<>> /\ group_avg = <<>>
    /\ lum = <<>> /\ avg = <<>> /\ rms = <<>>
    /\ NoInterp /\ NoSlice /\ NoFluence
    /\ NoSummary /\ NoWriter /\ NoLoader /\ NoDicts /\ NoAlpha

OutputFrame ==
    UNCHANGED <<stage, rawVars, interpVars, sliceVars, fluenceVars, summaryVars,
                writerVars, loaderVars, dictVars, alphaVars, missing, groups,
                file_energies>>

\* lines 15-33 of a call analyze_output(a, m, output, detector, channel_groups)
AnalyzeOutputBegin ==
    /\ stage = "output"
    /\ pc \in {"ready", "done", "error"}
    /\ \E m \in OutputMasses :
          /\ mass' = m
          /\ LET setup == analyze_output_setup(time, groups, m, missing)
             IN  IF ~setup.ok
                 THEN /\ pc' = "error"
                      /\ UNCHANGED <<energy_bins, time_totals, time_avg>>
                 ELSE /\ pc' = "snapshots"
                      /\ energy_bins' = setup.val
                      /\ time_totals' = [g \in {"Total"} \cup GroupNames(groups) |->
                                            np_zeros(Len(time))]
                      /\ time_avg' = [g \in {"Total"} \cup GroupNames(groups) |->
                                         [k \in 1..Len(time) |-> R(0)]]
    /\ i_time' = 0
    /\ UNCHANGED <<out_tables, channel_counts, group_counts, group_totals, group_avg>>
    /\ OutputFrame

\* lines 35-53: one iteration of the loop over the timesteps
AnalyzeSnapshot ==
    /\ stage = "output"
    /\ pc = "snapshots"
    /\ i_time < Len(time)
    /\ LET loaded == load_channel_counts(get_all_channels(groups), i_time + 1, mass,
                                         missing)
           counts == get_group_counts(loaded.val, groups, Len(energy_bins))
           totals == get_totals(counts)
           means == get_avg(counts, totals, energy_bins)
       IN  IF ~loaded.ok
           THEN /\ pc' = "error"
                /\ UNCHANGED <<channel_counts, group_counts, group_totals, group_avg,
                               time_totals, time_avg, i_time>>
           ELSE /\ pc' = "snapshots"
                /\ channel_counts' = loaded.val
                /\ group_counts' = counts
                /\ group_totals' = totals
                /\ group_avg' = means
                /\ time_totals' = [g \in DOMAIN time_totals |->
                                      [time_totals[g] EXCEPT ![i_time + 1] = totals[g]]]
                /\ time_avg' = [g \in DOMAIN time_avg |->
                                   [time_avg[g] EXCEPT ![i_time + 1] = means[g]]]
                /\ i_time' = i_time + 1
    /\ UNCHANGED <<out_tables, mass, energy_bins>>
    /\ OutputFrame

\* lines 55-63: create_time_table and save_time_table
SaveTimeTable ==
    /\ stage = "output"
    /\ pc = "snapshots"
    /\ i_time = Len(time)
    /\ out_tables' = SetItem(out_tables, mass, create_time_table(time, time_totals, time_avg))
    /\ pc' = "done"
    /\ UNCHANGED <<mass, i_time, time_totals, time_avg, channel_counts, energy_bins,
                   group_counts, group_totals, group_avg>>
    /\ OutputFrame

NextOutput == AnalyzeOutputBegin \/ AnalyzeSnapshot \/ SaveTimeTable

SpecOutput == InitOutput /\ [][NextOutput]_vars

----------------------------------------------------------------------------
(* SnowGlobesData.load_mass_tables of the root-level snowglobes.py *)

MaxSets == 3

SetNames == {"LMP", "LMP+N50", "SNA"}

AlphaValues == {1, 2, 3}

\* self.model_sets: distinct names, and self.alphas: one alpha per model set
ModelSetSeqs ==
    UNION {{ms \in [1..n -> SetNames] : \A a, b \in 1..n : ms[a] = ms[b] => a = b} :
           n \in 1..MaxSets}

\* load_mass_table(mass, alpha, detector) of the root-level snow_tools: the
\* table read from the file of that mass, alpha and detector
root_load_mass_table(m, alpha, detector) ==
    [mass |-> m, alpha |-> alpha, detector |-> detector]

\* dict.fromkeys(keys, value): every key is bound to the same value object
dict_fromkeys(keys, value) == [k \in SeqToSet(keys) |-> value]

\* d[key] = value on a dict held as a set of items
dict_setitem(d, key, value) ==
    {item \in d : item.key # key} \cup {[key |-> key, value |-> value]}

dict_keys(d) == {item.key : item \in d}

dict_getitem(d, key) == (CHOOSE item \in d : item.key = key).value

InitDicts ==
    /\ stage = "dicts"
    /\ pc = "ready"
    /\ model_sets \in ModelSetSeqs
    /\ alphas \in [1..Len(model_sets) -> AlphaValues]
    /\ heap = <<>>
    /\ tables = <<>>
    /\ ld_i = 0
    /\ ld_j = 0
    /\ NoConvert /\ NoAnalysis /\ NoSummary /\ NoWriter /\ NoLoader /\ NoOutput
    /\ NoAlpha

DictsFrame ==
    UNCHANGED <<stage, convertVars, analysisVars, summaryVars, writerVars, loaderVars,
                outputVars, alphaVars, model_sets, alphas>>

\* tables = dict.fromkeys(self.model_sets, {}): the literal {} is evaluated
\* once, so heap holds one dict object and every model set refers to it
LoadMassTablesBegin ==
    /\ stage = "dicts" /\ pc = "ready"
    /\ heap' = <<{}>>
    /\ tables' = dict_fromkeys(model_sets, 1)
    /\ ld_i' = 1
    /\ ld_j' = 1
    /\ pc' = "loop"
    /\ DictsFrame

\* one pass of the inner loop: tables[model_set][mass] = table
LoadMassTablesStep ==
    /\ stage = "dicts" /\ pc = "loop"
    /\ ld_i <= Len(alphas)
    /\ LET alpha == alphas[ld_i]
           model_set == model_sets[ld_i]
           m == ConfigMassList[ld_j]
           table == root_load_mass_table(m, alpha, "ar40kt")
       IN  heap' = [heap EXCEPT ![tables[model_set]] = dict_setitem(@, m, table)]
    /\ IF ld_j < Len(ConfigMassList)
       THEN ld_j' = ld_j + 1 /\ ld_i' = ld_i
       ELSE ld_j' = 1 /\ ld_i' = ld_i + 1
    /\ UNCHANGED <<pc, tables>>
    /\ DictsFrame

\* self.mass_tables = tables
LoadMassTablesReturn ==
    /\ stage = "dicts" /\ pc = "loop"
    /\ ld_i > Len(alphas)
    /\ pc' = "done"
    /\ UNCHANGED <<heap, tables, ld_i, ld_j>>
    /\ DictsFrame

NextDicts == LoadMassTablesBegin \/ LoadMassTablesStep \/ LoadMassTablesReturn

SpecDicts == InitDicts /\ [][NextDicts]_vars

----------------------------------------------------------------------------
(* get_alpha on its own *)

MaxEnergy == 6

\* energies k/2 for whole k; an rms below zero is what the linear
\* extrapolation of interpolate_time can hand on for a rising column
AvgValues == {Rat(k, 2) : k \in 0..MaxEnergy}

RmsValues == {Rat(k, 2) : k \in (-MaxEnergy)..MaxEnergy}

InitAlpha ==
    /\ stage = "alpha"
    /\ pc = "ready"
    /\ a_avg \in AvgValues
    /\ a_rms \in RmsValues
    /\ a_alpha = NoResult
    /\ NoConvert /\ NoAnalysis /\ NoSummary /\ NoWriter /\ NoLoader /\ NoOutput
    /\ NoDicts

GetAlpha ==
    /\ stage = "alpha" /\ pc = "ready"
    /\ a_alpha' = [ok |-> TRUE, val |-> get_alpha(a_avg, a_rms), err |-> "none"]
    /\ pc' = "done"
    /\ UNCHANGED <<stage, convertVars, analysisVars, summaryVars, writerVars, loaderVars,
                   outputVars, dictVars, a_avg, a_rms>>

NextAlpha == GetAlpha

SpecAlpha == InitAlpha /\ [][NextAlpha]_vars

----------------------------------------------------------------------------
(* The stages that are handed the tables of an earlier stage *)

InitStages == InitSlice \/ InitAnalysis \/ InitSummary

NextStages == NextSlice \/ NextAnalysis \/ NextSummary

SpecStages == InitStages /\ [][NextStages]_vars

----------------------------------------------------------------------------
(* The whole pipeline: a behaviour exercises one operation *)

Init ==
    \/ InitInterp \/ InitSlice \/ InitFluence \/ InitAnalysis
    \/ InitSummary \/ InitWriter \/ InitLoader \/ InitOutput
    \/ InitDicts \/ InitAlpha \/ InitSession

Next ==
    \/ NextInterp \/ NextSlice \/ NextFluence \/ NextAnalysis
    \/ NextSummary \/ NextWriter \/ NextLoader \/ NextOutput
    \/ NextDicts \/ NextAlpha \/ NextSession

Spec == Init /\ [][Next]_vars

----------------------------------------------------------------------------
(* Claims about the Interpolator *)

Last(a) == a[Len(a)]

InterpCalled == stage = "interp" /\ pc # "ready"

\* C1: interpolate_time at a query time equal to an existing timestep
\* time[k] (k = 0 and k = last included) returns the stored row y_var[k].
C1_InterpolationExact ==
    InterpCalled =>
        \A k \in 1..Len(time) :
            time[k] = t[1] =>
                /\ y_out.ok
                /\ \A f \in 1..NFlav : y_out.val[1][f] = R(Var(y_name)[k][f])

\* the linear formula between the adjacent timesteps i-1 and i (0-based)
Linear(q, i, f) ==
    LET y == Var(y_name)
    IN  RDiv(RAdd(RMul(R(y[i][f]), R(time[i + 1] - q)),
                  RMul(R(y[i + 1][f]), R(q - time[i]))),
             R(time[i + 1] - time[i]))

\* C2: for time[0] <= t <= time[last], interpolate_time picks an index i
\* whose left neighbour i-1 is the adjacent timestep, time[i-1] <= t <= time[i],
\* and returns the linear formula between the two, for every flavor column.
C2_LinearFormula ==
    (InterpCalled /\ Len(time) >= 2 /\ time[1] <= t[1] /\ t[1] <= Last(time)) =>
        LET i == searchsorted(time, t[1])
        IN  /\ y_out.ok
            /\ 1 <= i /\ i <= Len(time) - 1
            /\ time[i] <= t[1] /\ t[1] <= time[i + 1]
            /\ \A f \in 1..NFlav : y_out.val[1][f] = Linear(t[1], i, f)

----------------------------------------------------------------------------
(* Claims about the Time-Binner *)

SliceCalled == stage = "slice" /\ pc # "ready"

InsideRange == time[1] <= bin_edges[1] /\ bin_edges[2] <= Last(time)

yvars == [lum |-> lum, avg |-> avg, rms |-> rms]

VarNames == {"lum", "avg", "rms"}

\* C3: for a bin [left, right] inside the raw time range, the returned time
\* slice starts at left and ends at right, and every variable's slice starts
\* and ends with interpolate_time's values at left and right.
C3_BinEdgeExact ==
    (SliceCalled /\ InsideRange) =>
        /\ sliced.ok
        /\ sliced.val.t[1] = bin_edges[1]
        /\ Last(sliced.val.t) = bin_edges[2]
        /\ \A v \in VarNames :
              LET e == interpolate_time(bin_edges, time, yvars[v])
              IN  /\ e.ok
                  /\ sliced.val.y[v][1] = e.val[1]
                  /\ Last(sliced.val.y[v]) = e.val[2]

\* raw timesteps inside [left, right), in order
RECURSIVE SelectIn(_, _, _)
SelectIn(a, lo, hi) ==
    IF a = <<>> THEN <<>>
    ELSE (IF lo <= Head(a) /\ Head(a) < hi THEN <<Head(a)>> ELSE <<>>)
         \o SelectIn(Tail(a), lo, hi)

Interior(a) == IF Len(a) <= 2 THEN <<>> ELSE SubSeq(a, 2, Len(a) - 1)

NonDecreasing(a) == \A k \in 1..(Len(a) - 1) : a[k] <= a[k + 1]

\* C4: for a bin [left, right) inside the raw time range the slice holds
\* exactly the raw timesteps with left <= t < right as interior entries, one
\* entry for the raw timestep before left and one for the raw timestep after
\* right, and the bin-local times are non-decreasing.
C4_SliceMembership ==
    (SliceCalled /\ InsideRange) =>
        /\ sliced.ok
        /\ Interior(sliced.val.t) = SelectIn(time, bin_edges[1], bin_edges[2])
        /\ Len(sliced.val.t) = Len(SelectIn(time, bin_edges[1], bin_edges[2])) + 2
        /\ NonDecreasing(sliced.val.t)

----------------------------------------------------------------------------
(* Claims about the Fluence Integrator *)

RECURSIVE RSum(_)
RSum(a) == IF a = <<>> THEN R(0) ELSE RAdd(Head(a), RSum(Tail(a)))

\* coefficient of the symbolic factor sym in a sum of terms
Coef(terms, sym) ==
    RSum([j \in 1..Len(terms) |-> IF terms[j].phi = sym THEN terms[j].c ELSE R(0)])

Symbols(terms) == {terms[j].phi : j \in 1..Len(terms)}

\* two sums of terms denote the same linear combination of the symbols
SameSum(a, b) == \A sym \in Symbols(a) \cup Symbols(b) : Coef(a, sym) = Coef(b, sym)

\* the trapezoidal rule over samples y at abscissae x, as a sum of terms:
\* every interval [x[k], x[k+1]] gives half its width to each of its ends
Trapezoid(y, x) ==
    [j \in 1..(2 * (Len(x) - 1)) |->
        LET k == IF j < Len(x) THEN j ELSE j - Len(x) + 2
            w == IF j < Len(x) THEN x[j + 1] - x[j] ELSE x[k] - x[k - 1]
        IN  [c |-> RMul(Rat(w, 2), y[k].c), phi |-> y[k].phi]]

\* bin b (0-based) spans [timebins[b], timebins[b] + dt], dt = timebins[1] - timebins[0]
BinSpan(b) == <<timebins[b + 1], timebins[b + 1] + (timebins[2] - timebins[1])>>

\* the fluence of bin b for flavor f and energy bin e that the claim describes
ExpectedFluence(b, f, e) ==
    LET sl == slice_timebin(BinSpan(b), time, yvars)
        fx == get_flux_spectrum(e_bins, sl.val.y.lum, sl.val.y.avg, sl.val.y.rms)
    IN  Trapezoid([k \in 1..Len(sl.val.t) |-> fx.val[k][f][e]], sl.val.t)

InLoop == stage = "fluence" /\ pc \in {"loop", "done"}

\* C5: every row get_fluences has written is the trapezoidal-rule integral of
\* the flux spectrum over the bin-local times of its bin [timebins[i],
\* timebins[i] + dt], and every row of a bin not yet processed is still zero
\* (a row is written once, by the iteration of its own bin).
C5_RowIsTrapezoid ==
    InLoop =>
        \A f \in 1..NFlav, b \in 0..(Len(timebins) - 1), e \in 1..Len(e_bins) :
            IF b < i_bin
            THEN SameSum(fluences[f][b + 1][e], ExpectedFluence(b, f, e))
            ELSE fluences[f][b + 1][e] = <<>>

C5_Witness ==
    /\ stage = "fluence" /\ pc = "done" /\ Len(timebins) >= 2
    /\ \E f \in 1..NFlav, e \in 1..Len(e_bins) :
          /\ Len(fluences[f][1][e]) >= 4
          /\ Len(fluences[f][2][e]) >= 2
          /\ \E j \in 1..Len(fluences[f][1][e]) : fluences[f][1][e][j].c[2] > 1

LumNonNegative == \A k \in 1..Len(lum), f \in 1..NFlav : lum[k][f] >= 0

ValidEnergies ==
    /\ \A k \in 1..Len(avg), f \in 1..NFlav : 0 < avg[k][f] /\ avg[k][f] < rms[k][f]
    /\ \A e \in 1..Len(e_bins) : e_bins[e] > 0
    /\ \A e \in 1..(Len(e_bins) - 1) : e_bins[e] < e_bins[e + 1]

\* phi > 0: avg > 0, e_bin > 0 and alpha > -1 (the domain of Gamma(alpha + 1)
\* and of the real power (alpha + 1) ** (alpha + 1))
PhiPositive(p) == RLt(R(0), p.avg) /\ p.e_bin > 0 /\ RLt(R(-1), p.alpha)

\* a sum of terms each of which is >= 0
TermsNonNegative(terms) ==
    \A j \in 1..Len(terms) : RLe(R(0), terms[j].c) /\ PhiPositive(terms[j].phi)

\* C6: for non-negative luminosities and valid energies the table returned
\* by get_fluences has, for each of the flavors e, a, x, one row per time bin
\* and one column per energy bin, and every entry is >= 0.
C6_FluenceTable ==
    (stage = "fluence" /\ pc = "done" /\ LumNonNegative /\ ValidEnergies) =>
        /\ DOMAIN fluences = 1..NFlav
        /\ \A f \in 1..NFlav :
              /\ Len(fluences[f]) = Len(timebins)
              /\ \A b \in 1..Len(timebins) :
                    /\ Len(fluences[f][b]) = Len(e_bins)
                    /\ \A e \in 1..Len(e_bins) : TermsNonNegative(fluences[f][b][e])

C6_Witness ==
    /\ stage = "fluence" /\ pc = "done" /\ LumNonNegative /\ ValidEnergies
    /\ \E f \in 1..NFlav, b \in 1..Len(timebins), e \in 1..Len(e_bins) :
          \E j \in 1..Len(fluences[f][b][e]) : RLt(R(0), fluences[f][b][e][j].c)

\* the scenario: time = [0,1,2,3], flavor "e" with constant L, avg = 10 and
\* rms = 12, one time bin with left edge 0, one energy bin at 5
Scenario ==
    /\ time = <<0, 1, 2, 3>>
    /\ \A k \in 1..Len(time) : lum[k][1] = lum[1][1] /\ avg[k][1] = 10 /\ rms[k][1] = 12
    /\ timebins = <<0>>
    /\ e_bins = <<5>>

\* C7: get_fluences on the scenario completes, with a positive fluence.
C7_EndToEnd ==
    (stage = "fluence" /\ Scenario /\ pc # "ready") =>
        /\ pc # "error"
        /\ pc = "done" =>
              /\ fluences[1][1][1] # <<>>
              /\ \A j \in 1..Len(fluences[1][1][1]) :
                    /\ RLt(R(0), fluences[1][1][1][j].c)
                    /\ IsFinite(fluences[1][1][1][j].c)
                    /\ PhiPositive(fluences[1][1][1][j].phi)

----------------------------------------------------------------------------
(* Claims about the Channel Aggregator *)

Counted == stage = "analysis" /\ pc \in {"counts", "totals", "done"}

\* sum over a set of group names of one energy bin of group_counts
RECURSIVE SumOverGroups(_, _)
SumOverGroups(names, e) ==
    IF names = {} THEN 0
    ELSE LET g == CHOOSE x \in names : TRUE
         IN  group_counts[g][e] + SumOverGroups(names \ {g}, e)

Overlapping ==
    \E k \in 1..Len(get_all_channels(groups)), j \in 1..Len(get_all_channels(groups)) :
        k # j /\ get_all_channels(groups)[k] = get_all_channels(groups)[j]

RECURSIVE SumOverChannels(_, _)
SumOverChannels(chans, e) ==
    IF chans = {} THEN 0
    ELSE LET c == CHOOSE x \in chans : TRUE
         IN  channel_counts[c][e] + SumOverChannels(chans \ {c}, e)

\* C9 as claimed: 'Total' is the sum over the distinct channels of the union
\* of all groups' channel lists, each channel counted once, also when a
\* channel is listed more than once.
C9_TotalIsUnion ==
    Counted =>
        \A e \in 1..Len(energy_bins) :
            group_counts["Total"][e] = SumOverChannels(ChannelsOf(groups), e)

\* number of times channel c is listed in the groups
Listed(c) ==
    Cardinality({k \in 1..Len(get_all_channels(groups)) : get_all_channels(groups)[k] = c})

RECURSIVE SumWithMultiplicity(_, _)
SumWithMultiplicity(chans, e) ==
    IF chans = {} THEN 0
    ELSE LET c == CHOOSE x \in chans : TRUE
         IN  Listed(c) * channel_counts[c][e] + SumWithMultiplicity(chans \ {c}, e)

\* C9 as amended: 'Total' counts every channel once per listing, so it is
\* the sum over the union of the groups only when no channel is listed twice.
C9_TotalCountsListings ==
    Counted =>
        \A e \in 1..Len(energy_bins) :
            /\ group_counts["Total"][e] = SumWithMultiplicity(ChannelsOf(groups), e)
            /\ ~Overlapping =>
                  group_counts["Total"][e] = SumOverChannels(ChannelsOf(groups), e)

C9_Witness ==
    /\ Counted /\ Overlapping /\ Len(groups) = 2
    /\ \E e \in 1..Len(energy_bins) :
          group_counts["Total"][e] > SumOverChannels(ChannelsOf(groups), e)

\* C10: every group's total is the sum of its counts over the energy bins,
\* and its mean energy is the count-weighted sum of the energy bins divided
\* by the total when the total is not 0, and exactly 0 (never nan) when it is.
C10_MeanEnergy ==
    (stage = "analysis" /\ pc = "done") =>
        /\ DOMAIN group_totals = {"Total"} \cup GroupNames(groups)
        /\ DOMAIN group_avg = {"Total"} \cup GroupNames(groups)
        /\ \A g \in {"Total"} \cup GroupNames(groups) :
              /\ group_totals[g] = Sum(group_counts[g])
              /\ IsFinite(group_avg[g])
              /\ IF group_totals[g] = 0
                 THEN group_avg[g] = R(0)
                 ELSE RMul(group_avg[g], R(group_totals[g]))
                        = R(Sum([e \in 1..Len(energy_bins) |->
                                   group_counts[g][e] * energy_bins[e]]))

C10_Witness ==
    /\ stage = "analysis" /\ pc = "done"
    /\ \E g \in GroupNames(groups) : group_totals[g] = 0 /\ group_avg[g] = R(0)
    /\ \E g \in GroupNames(groups) : group_totals[g] > 0 /\ group_avg[g][2] > 1

----------------------------------------------------------------------------
(* Claims about the Time-Integration / Summary Engine *)

Integrated == stage = "summary" /\ pc = "integrated"

SummaryGroups == {"Total"} \cup {channels[k] : k \in 1..Len(channels)}

\* the sum of the entries 1..k of a, added one timestep after the other
RECURSIVE SumFirst(_, _)
SumFirst(a, k) == IF k = 0 THEN R(0) ELSE RAdd(SumFirst(a, k - 1), a[k])

\* C11: for every mass, every group (Total included) and every k from 1 to
\* the number of timesteps, time_integrate(mass_tables, n_bins=k) returns
\* Tot_group equal to the sum of the per-timestep Tot_group of timesteps
\* 0..k-1 of that mass.
C11_WindowTotal ==
    (Integrated /\ 1 <= n_window /\ n_window <= NTime(mass_tables)) =>
        \A g \in SummaryGroups, m \in 1..NMass(mass_tables) :
            summary[y_column("Tot", g)][m]
                = SumFirst(mass_tables[y_column("Tot", g)][m], n_window)

\* a window of two timesteps or more, shorter than the series, with counts
C11_Witness ==
    /\ Integrated
    /\ 2 <= n_window /\ n_window < NTime(mass_tables)
    /\ NMass(mass_tables) = 2
    /\ \A m \in 1..2 : RLt(R(0), summary[y_column("Tot", "c1")][m])
    /\ summary[y_column("Tot", "Total")][1] # summary[y_column("Tot", "Total")][2]

\* sum over the first k timesteps of Avg_group[t] * Tot_group[t]
RECURSIVE EnergyFirst(_, _, _)
EnergyFirst(av, tot, k) ==
    IF k = 0 THEN R(0) ELSE RAdd(EnergyFirst(av, tot, k - 1), RMul(av[k], tot[k]))

\* C12: for every mass and group, time_integrate returns Avg_group =
\* (sum over the first n_bins timesteps of Avg_group[t] * Tot_group[t]) /
\* window_total when window_total is nonzero, and exactly 0 (not NaN) when
\* window_total is 0.
C12_WindowMeanEnergy ==
    (Integrated /\ 1 <= n_window /\ n_window <= NTime(mass_tables)) =>
        \A g \in SummaryGroups, m \in 1..NMass(mass_tables) :
            LET window_total == SumFirst(mass_tables[y_column("Tot", g)][m], n_window)
                energy == EnergyFirst(mass_tables[y_column("Avg", g)][m],
                                      mass_tables[y_column("Tot", g)][m], n_window)
            IN  summary[y_column("Avg", g)][m]
                    = IF window_total # R(0) THEN RDiv(energy, window_total) ELSE R(0)

\* C13: for every max_n_bins >= 1, get_cumulative returns a result indexed
\* by n_bins = 1..max_n_bins, in that order and with one entry per window
\* size, whose entry at n_bins = b equals time_integrate(mass_tables,
\* n_bins=b) for every mass and group.
C13_CumulativeIsRepeatedWindow ==
    (stage = "summary" /\ pc = "done") =>
        /\ x_cumulative.n_bins = [b \in 1..max_n_bins |-> b]
        /\ Len(x_cumulative.data) = max_n_bins
        /\ \A b \in 1..max_n_bins :
              x_cumulative.data[b] = time_integrate(mass_tables, b, channels)

\* three window sizes, the results of which differ
C13_Witness ==
    /\ stage = "summary" /\ pc = "done"
    /\ max_n_bins = 3
    /\ NMass(mass_tables) = 2
    /\ x_cumulative.data[1] # x_cumulative.data[2]
    /\ x_cumulative.data[2] # x_cumulative.data[3]

----------------------------------------------------------------------------
(* Claims about the Flux-File Writer *)

ColumnNames(table) == [k \in 1..Len(table) |-> table[k][1]]

Column(table, name) == table[CHOOSE k \in 1..Len(table) : table[k][1] = name][2]

\* the layout of the flux file of time bin i (0-based)
HasLayout(table, i) ==
    /\ ColumnNames(table) = <<"E_nu", "e", "mu", "tau", "ebar", "mubar", "taubar">>
    /\ table[1][2] = e_bins
    /\ Column(table, "e") = fluxes["e"][i + 1]
    /\ Column(table, "ebar") = fluxes["a"][i + 1]
    /\ \A name \in {"mu", "tau", "mubar", "taubar"} :
          Column(table, name) = fluxes["x"][i + 1]

----------------------------------------------------------------------------
(* Claims about table loading *)

FieldsUnset ==
    /\ sg.mass_tables = None /\ sg.summary_tables = None
    /\ sg.prog_table = None /\ sg.channel_fracs = None

\* C15: when ECRATE is absent, every table-loading operation
\* (load_summary_table, load_mass_table, load_all_mass_tables,
\* load_prog_table) raises the EnvironmentError before any file is read,
\* and constructing SnowGlobesData with load_data=True fails with that error
\* without mass_tables, summary_tables, prog_table or channel_fracs set.
C15_MissingConfigurationFailsFast ==
    (stage = "loader" /\ environ = "unset") =>
        /\ files_read = {}
        /\ call # "none" => outcome = Raise("EnvironmentError")
        /\ sg # <<>> =>
              /\ pc \in {"constructed", "load_mass_tables", "error"}
              /\ FieldsUnset
              /\ pc = "error" => sg.raised = "EnvironmentError"
              /\ pc = "constructed" => sg.raised = "none"

\* a loading function was called and a construction with load_data=True
\* has failed, both without ECRATE
C15_Witness ==
    /\ stage = "loader" /\ environ = "unset"
    /\ call = "load_all_mass_tables"
    /\ sg # <<>> /\ pc = "error" /\ sg.raised = "EnvironmentError"

----------------------------------------------------------------------------
(* Claims about error handling in the Interpolator *)

\* C16: for every query time t < time[0] or t > time[last],
\* interpolate_time ends in an error and never returns a numeric value.
C16_OutOfRangeIsError ==
    (InterpCalled /\ (t[1] < time[1] \/ t[1] > Last(time))) => ~y_out.ok

----------------------------------------------------------------------------
(* Claims about analyze_output *)

\* the detector-output files analyze_output reads for mass m
NeededFiles(m) ==
    {channel_dat_filepath(c, i, m) : c \in ChannelsOf(groups), i \in 1..Len(time)}

ListedChannels(g) ==
    IF g = "Total" THEN get_all_channels(groups) ELSE groups[GroupIndex(groups, g)][2]

\* total counts and mean energy of group g at timestep i, from the files
ExpectedTot(m, i, g) ==
    Sum([k \in 1..Len(ListedChannels(g)) |-> Sum(CountsFile(m, i, ListedChannels(g)[k]))])

ExpectedAvg(m, i, g) ==
    IF ExpectedTot(m, i, g) = 0 THEN R(0)
    ELSE Rat(Sum([k \in 1..Len(ListedChannels(g)) |->
                    Sum([e \in 1..Len(EnergyColumn) |->
                           CountsFile(m, i, ListedChannels(g)[k])[e]
                               * EnergyColumn[e] * 1000])]),
             ExpectedTot(m, i, g))

CompleteTable(table, m) ==
    /\ table.Time = time
    /\ DOMAIN table.Tot = {"Total"} \cup GroupNames(groups)
    /\ DOMAIN table.Avg = {"Total"} \cup GroupNames(groups)
    /\ \A g \in DOMAIN table.Tot, i \in 1..Len(time) :
          /\ table.Tot[g][i] = ExpectedTot(m, i, g)
          /\ table.Avg[g][i] = ExpectedAvg(m, i, g)

\* C17: if loading the channel-count file of any (timestep, channel) fails
\* during analyze_output for one mass, analyze_output ends in an error for
\* that mass and no time table is written for it (no zero-filled or partial
\* table); the tables written for other masses stay what they were.
C17_MissingFileAborts ==
    stage = "output" =>
        /\ \A m \in DOMAIN out_tables :
              /\ NeededFiles(m) \cap missing = {}
              /\ CompleteTable(out_tables[m], m)
        /\ (pc \in {"done", "error"} /\ NeededFiles(mass) \cap missing # {}) =>
              pc = "error"

\* the table of one mass is written, then the run of the other mass fails
\* in the second snapshot
C17_Witness ==
    /\ stage = "output" /\ pc = "error"
    /\ DOMAIN out_tables = {"m1"}
    /\ mass = "m2"
    /\ i_time = 1
    /\ NeededFiles("m2") \cap missing # {}

----------------------------------------------------------------------------
(* Claims about ownership *)

\* C18: slice_timebin leaves the raw time array and every raw variable
\* array unchanged (the edges are written into copies), get_group_counts
\* leaves every channel_counts array unchanged, and time_integrate leaves
\* mass_tables and the caller's channels list unchanged.
C18_UpstreamUnchanged ==
    [][/\ stage = "slice" => UNCHANGED <<time, lum, avg, rms>>
       /\ stage = "analysis" => UNCHANGED channel_counts
       /\ stage = "summary" => UNCHANGED <<mass_tables, channels>>]_vars

\* a slice whose end entries were replaced by edges and interpolated values
\* that differ from the raw entries they replace
C18_Witness ==
    /\ stage = "slice" /\ pc = "done"
    /\ Len(sliced.val.t) >= 3
    /\ LET i_left == searchsorted(time, bin_edges[1])
       IN  /\ i_left >= 1
           /\ sliced.val.t[1] # time[i_left]
           /\ sliced.val.y.lum[1] # [f \in 1..NFlav |-> R(lum[i_left][f])]

----------------------------------------------------------------------------
(* Claims about the root-level SnowGlobesData *)

\* C19: after load_mass_tables of the root-level snowglobes.py, for every
\* model set s = model_sets[i] and every mass m, tables[s][m] is the table
\* that was loaded with alphas[i].
C19_ModelSetIsolation ==
    (stage = "dicts" /\ pc = "done") =>
        \A i \in 1..Len(model_sets) : \A m \in SeqToSet(ConfigMassList) :
            LET d == heap[tables[model_sets[i]]]
            IN  /\ m \in dict_keys(d)
                /\ dict_getitem(d, m) = root_load_mass_table(m, alphas[i], "ar40kt")

----------------------------------------------------------------------------
(* Claims about the pinch parameter *)

AlphaDone == stage = "alpha" /\ pc = "done"

RAbs(x) == <<Abs(x[1]), x[2]>>

AlphaPlusOne == RAdd(a_alpha.val, R(1))

AlphaClosedForm ==
    RDiv(RMul(a_avg, a_avg), RSub(RMul(a_rms, a_rms), RMul(a_avg, a_avg)))

\* C20 as stated: for all avg > 0 and rms # avg, get_alpha(avg, rms) + 1 is
\* avg^2 / (rms^2 - avg^2), the value is above -1 exactly when rms > avg
\* and below -1 whenever rms < avg.
C20_PinchDomain ==
    (AlphaDone /\ RLt(R(0), a_avg) /\ a_rms # a_avg) =>
        /\ AlphaPlusOne = AlphaClosedForm
        /\ (RLt(R(-1), a_alpha.val) <=> RLt(a_avg, a_rms))
        /\ (RLt(a_rms, a_avg) => RLt(a_alpha.val, R(-1)))

\* C20, amended: for all avg > 0 and rms with |rms| # avg,
\* get_alpha(avg, rms) + 1 is the finite value avg^2 / (rms^2 - avg^2), the
\* value is above -1 exactly when |rms| > avg and below -1 whenever
\* |rms| < avg.
C20_PinchDomainAbs ==
    (AlphaDone /\ RLt(R(0), a_avg) /\ RAbs(a_rms) # a_avg) =>
        /\ IsFinite(a_alpha.val)
        /\ AlphaPlusOne = AlphaClosedForm
        /\ (RLt(R(-1), a_alpha.val) <=> RLt(a_avg, RAbs(a_rms)))
        /\ (RLt(RAbs(a_rms), a_avg) => RLt(a_alpha.val, R(-1)))

\* both sides of the domain have been computed: a value above -1 for
\* rms > avg > 0 that is not a whole number
C20_Witness ==
    /\ AlphaDone
    /\ RLt(R(0), a_avg) /\ RLt(a_avg, a_rms)
    /\ RLt(R(-1), a_alpha.val)
    /\ a_alpha.val[2] > 1

----------------------------------------------------------------------------
(* Claims about a SnowGlobesData object in use *)

\* C21: after any sequence of load_mass_tables, integrate_summary(n_bins)
\* and get_channel_fractions calls on an object constructed with
\* load_data=True, channel_fracs equals the channel fractions computed from
\* the current summary_tables.
C21_ChannelFractionsCurrent ==
    stage = "session" =>
        sg.channel_fracs = get_channel_fractions(sg.summary_tables, sg.channels)

\* C22: for every n_bins from 1 to the number of timesteps of the mass
\* tables (inclusive), integrate_summary(n_bins) completes and sets
\* summary_tables to one time_integrate result per model set.
C22_EveryWindowAccepted ==
    (/\ stage = "session" /\ call = "integrate_summary"
     /\ n_window \in 1..NTime(sg.mass_tables[sg.model_sets[1]])) =>
        /\ outcome.ok
        /\ sg.summary_tables =
               [model_set \in SeqToSet(sg.model_sets) |->
                   time_integrate(sg.mass_tables[model_set], n_window, sg.channels)]

====
